---- MODULE Spec2Model ----
(***************************************************************************)
(* Model of the Jira conversation agent (src/agents/jira_agent.py): the    *)
(* per-user conversation store, the guided field interview, the intent     *)
(* extractor turn, the direct validation path, and the pure helpers        *)
(* (interpret_choice, validators, label inference) they rely on.           *)
(*                                                                         *)
(* Text is modelled by TLA+ strings; a character is a string of length 1.  *)
(* An Optional value is a tuple: None is <<>> and a present value v is     *)
(* <<v>>.  A Python exception is the tuple <<"raise", kind>>.              *)
(***************************************************************************)
EXTENDS Integers, Sequences, FiniteSets, TLC

None == <<>>

Some(v) == <<v>>

Raise(kind) == <<"raise", kind>>

IsNone(o) == Len(o) = 0

IsSome(o) == Len(o) = 1

IsRaise(o) == Len(o) = 2

Val(o) == o[1]

SetMin(S) == CHOOSE x \in S : \A y \in S : x <= y

SetMax(S) == CHOOSE x \in S : \A y \in S : y <= x

(***************************************************************************)
(* Python str primitives used by the agent.                                *)
(***************************************************************************)
Ch(s, i) == SubSeq(s, i, i)

UPPER == "ABCDEFGHIJKLMNOPQRSTUVWXYZ"

LOWER == "abcdefghijklmnopqrstuvwxyz"

ASCII_DIGITS == "0123456789"

Chars(alphabet) == {Ch(alphabet, i) : i \in 1..Len(alphabet)}

UPPER_CHARS == Chars(UPPER)

LOWER_CHARS == Chars(LOWER)

DIGIT_CHARS == Chars(ASCII_DIGITS)

LOWER_OF == [c \in UPPER_CHARS |-> Ch(LOWER, CHOOSE i \in 1..26 : Ch(UPPER, i) = c)]

UPPER_OF == [c \in LOWER_CHARS |-> Ch(UPPER, CHOOSE i \in 1..26 : Ch(LOWER, i) = c)]

DIGIT_VALUE == [c \in DIGIT_CHARS |-> (CHOOSE i \in 1..10 : Ch(ASCII_DIGITS, i) = c) - 1]

\* str.isspace() for one character
IsSpace(c) == c \in {" ", "\t", "\n"}

\* characters for which str.isdigit() is true: the ASCII digits and, among
\* others, the superscript digits, which int() does not accept
SUPERSCRIPT_DIGITS == {"²", "³"}

IsDigitChar(c) == c \in DIGIT_CHARS \/ c \in SUPERSCRIPT_DIGITS

IsAlpha(c) == c \in UPPER_CHARS \/ c \in LOWER_CHARS

\* \w of the re module, on the characters used here
IsWordChar(c) == IsAlpha(c) \/ IsDigitChar(c) \/ c = "_"

LowerChar(c) == IF c \in UPPER_CHARS THEN LOWER_OF[c] ELSE c

UpperChar(c) == IF c \in LOWER_CHARS THEN UPPER_OF[c] ELSE c

\* the character maps recurse on the two halves of the text
RECURSIVE lower(_)
lower(s) ==
  IF Len(s) = 0 THEN ""
  ELSE IF Len(s) = 1 THEN LowerChar(s)
  ELSE lower(SubSeq(s, 1, Len(s) \div 2)) \o lower(SubSeq(s, Len(s) \div 2 + 1, Len(s)))

RECURSIVE upper(_)
upper(s) ==
  IF Len(s) = 0 THEN ""
  ELSE IF Len(s) = 1 THEN UpperChar(s)
  ELSE upper(SubSeq(s, 1, Len(s) \div 2)) \o upper(SubSeq(s, Len(s) \div 2 + 1, Len(s)))

strip(s) ==
  LET keep == {i \in 1..Len(s) : ~IsSpace(Ch(s, i))}
  IN  IF keep = {} THEN "" ELSE SubSeq(s, SetMin(keep), SetMax(keep))

\* s.replace(old, new) for a one-character old
RECURSIVE replace(_, _, _)
replace(s, old, new) ==
  IF Len(s) = 0 THEN ""
  ELSE IF Len(s) = 1 THEN (IF s = old THEN new ELSE s)
  ELSE replace(SubSeq(s, 1, Len(s) \div 2), old, new)
         \o replace(SubSeq(s, Len(s) \div 2 + 1, Len(s)), old, new)

isdigit(s) == s # "" /\ \A i \in 1..Len(s) : IsDigitChar(Ch(s, i))

RECURSIVE DecimalValue(_)
DecimalValue(s) ==
  IF s = "" THEN 0
  ELSE 10 * DecimalValue(SubSeq(s, 1, Len(s) - 1))
         + DIGIT_VALUE[Ch(s, Len(s))]

\* int(s) for a string on which isdigit() is true
int(s) ==
  IF \A i \in 1..Len(s) : Ch(s, i) \in DIGIT_CHARS
  THEN Some(DecimalValue(s))
  ELSE Raise("invalid literal for int() with base 10: '" \o s \o "'")

\* sub in s
Contains(s, sub) ==
  \E i \in 1..(Len(s) - Len(sub) + 1) : SubSeq(s, i, i + Len(sub) - 1) = sub

\* s.split(sep) for a one-character sep
RECURSIVE split(_, _)
split(s, sep) ==
  LET hits == {i \in 1..Len(s) : Ch(s, i) = sep}
  IN  IF hits = {} THEN <<s>>
      ELSE <<SubSeq(s, 1, SetMin(hits) - 1)>>
             \o split(SubSeq(s, SetMin(hits) + 1, Len(s)), sep)

Range(seq) == {seq[i] : i \in DOMAIN seq}

(***************************************************************************)
(* Field registry.                                                         *)
(***************************************************************************)
CHOICE_MAPS ==
  [issue_type |-> <<"Task", "Story", "Epic">>,
   priority   |-> <<"Highest", "High", "Medium", "Low", "Lowest">>,
   status     |-> <<"To Do", "In Progress", "In Review">>]

FIELD_ORDER ==
  <<"issue_type", "priority", "status", "summary", "description",
    "assignee", "start_date", "due_date", "parent_key", "labels">>

\* CHOICE_MAPS.get(field, [])
ChoicesOf(field) ==
  IF field \in DOMAIN CHOICE_MAPS THEN CHOICE_MAPS[field] ELSE <<>>

\* the text-reply loop of interpret_choice
TextChoice(field, t) ==
  LET opts == ChoicesOf(field)
      normalized(opt) == replace(replace(lower(opt), " ", ""), "-", "")
      hits == {i \in 1..Len(opts) : t \in {lower(opts[i]), normalized(opts[i])}}
  IN  IF hits = {} THEN None ELSE Some(opts[SetMin(hits)])

interpret_choice(field, text) ==
  LET t == lower(strip(text))
      opts == ChoicesOf(field)
  IN  IF isdigit(t)
      THEN LET n == int(t)
           IN  IF IsRaise(n) THEN n
               ELSE IF 0 <= Val(n) - 1 /\ Val(n) - 1 < Len(opts)
                    THEN Some(opts[Val(n)])
                    ELSE TextChoice(field, t)
      ELSE TextChoice(field, t)

(***************************************************************************)
(* Validators.                                                             *)
(***************************************************************************)
DaysInMonth(y, m) ==
  IF m \in {4, 6, 9, 11} THEN 30
  ELSE IF m # 2 THEN 31
  ELSE IF (y % 4 = 0 /\ y % 100 # 0) \/ y % 400 = 0 THEN 29 ELSE 28

AllAsciiDigits(s) == \A i \in 1..Len(s) : Ch(s, i) \in DIGIT_CHARS

\* the %m group of strptime: 1[0-2]|0[1-9]|[1-9]
MonthDirective(s) ==
  \/ Len(s) = 2 /\ Ch(s, 1) = "1" /\ Ch(s, 2) \in {"0", "1", "2"}
  \/ Len(s) = 2 /\ Ch(s, 1) = "0" /\ AllAsciiDigits(Ch(s, 2)) /\ Ch(s, 2) # "0"
  \/ Len(s) = 1 /\ AllAsciiDigits(s) /\ s # "0"

\* the %d group of strptime: 3[0-1]|[1-2]\d|0[1-9]|[1-9]| [1-9]
DayDirective(s) ==
  \/ Len(s) = 2 /\ Ch(s, 1) = "3" /\ Ch(s, 2) \in {"0", "1"}
  \/ Len(s) = 2 /\ Ch(s, 1) \in {"1", "2"} /\ AllAsciiDigits(Ch(s, 2))
  \/ Len(s) = 2 /\ Ch(s, 1) \in {"0", " "} /\ AllAsciiDigits(Ch(s, 2)) /\ Ch(s, 2) # "0"
  \/ Len(s) = 1 /\ AllAsciiDigits(s) /\ s # "0"

\* datetime.strptime(s, "%Y-%m-%d") does not raise ValueError
Strptime_Ymd(s) ==
  \E ml \in {1, 2}, dl \in {1, 2} :
    /\ Len(s) = 4 + 1 + ml + 1 + dl
    /\ AllAsciiDigits(SubSeq(s, 1, 4))
    /\ Ch(s, 5) = "-"
    /\ MonthDirective(SubSeq(s, 6, 5 + ml))
    /\ Ch(s, 6 + ml) = "-"
    /\ DayDirective(SubSeq(s, 7 + ml, 6 + ml + dl))
    /\ LET y == DecimalValue(SubSeq(s, 1, 4))
           m == DecimalValue(SubSeq(s, 6, 5 + ml))
           d == DecimalValue(strip(SubSeq(s, 7 + ml, 6 + ml + dl)))
       IN  y >= 1 /\ d <= DaysInMonth(y, m)

validate_date(date_str) ==
  IF strip(date_str) = "" THEN TRUE ELSE Strptime_Ymd(strip(date_str))

\* ^[a-zA-Z0-9._%+-]+@[a-zA-Z0-9.-]+\.[a-zA-Z]{2,}$
EmailPattern(e) ==
  LET alnum(c) == IsAlpha(c) \/ c \in DIGIT_CHARS
      localc(c) == alnum(c) \/ c \in {".", "_", "%", "+", "-"}
      domainc(c) == alnum(c) \/ c \in {".", "-"}
  IN  \E a \in {i \in 1..Len(e) : Ch(e, i) = "@"},
         d \in {i \in 1..Len(e) : Ch(e, i) = "."} :
        /\ a >= 2 /\ d >= a + 2 /\ Len(e) >= d + 2
        /\ \A k \in 1..(a - 1) : localc(Ch(e, k))
        /\ \A k \in (a + 1)..(d - 1) : domainc(Ch(e, k))
        /\ \A k \in (d + 1)..Len(e) : IsAlpha(Ch(e, k))

validate_email(email) ==
  IF strip(email) = "" THEN TRUE ELSE EmailPattern(strip(email))

\* re.match(r'^[A-Z]+-\d+$', key)
IssueKeyPattern(key) ==
  \E h \in {i \in 1..Len(key) : Ch(key, i) = "-"} :
    /\ h >= 2 /\ Len(key) >= h + 1
    /\ \A k \in 1..(h - 1) : Ch(key, k) \in UPPER_CHARS
    /\ \A k \in (h + 1)..Len(key) : Ch(key, k) \in DIGIT_CHARS

(***************************************************************************)
(* Label inference.                                                        *)
(***************************************************************************)
tech_keywords ==
  {"api", "database", "frontend", "backend", "mobile", "web", "server",
   "authentication", "oauth", "login", "payment", "gateway", "security",
   "performance", "bug", "error", "timeout", "crash", "fix",
   "critical", "urgent", "important", "high", "medium", "low",
   "ui", "ux", "design", "infrastructure", "devops", "testing",
   "deployment", "monitoring", "logging", "backup", "migration",
   "user", "customer", "admin", "report", "analytics", "dashboard",
   "checkout", "cart", "wishlist", "profile", "settings", "notification"}

compound_keywords ==
  << <<"two-factor", {"two", "factor", "authentication", "2fa"}>>,
     <<"single-sign-on", {"single", "sign", "sso"}>>,
     <<"real-time", {"real", "time", "realtime"}>>,
     <<"third-party", {"third", "party", "external"}>>,
     <<"end-to-end", {"end", "to", "e2e"}>> >>

\* re.findall(r'\b\w+\b', s): the maximal runs of word characters
RECURSIVE Words(_)
Words(s) ==
  LET starts == {i \in 1..Len(s) : IsWordChar(Ch(s, i))}
  IN  IF starts = {} THEN <<>>
      ELSE LET b == SetMin(starts)
               stops == {i \in b..Len(s) : ~IsWordChar(Ch(s, i))}
               e == IF stops = {} THEN Len(s) ELSE SetMin(stops) - 1
           IN  <<SubSeq(s, b, e)>> \o Words(SubSeq(s, e + 1, Len(s)))

\* the keyword loop: append each vocabulary word not already found
RECURSIVE KeywordScan(_, _)
KeywordScan(words, found) ==
  IF words = <<>> THEN found
  ELSE KeywordScan(Tail(words),
         IF Head(words) \in tech_keywords /\ Head(words) \notin Range(found)
         THEN Append(found, Head(words)) ELSE found)

\* the compound loop, in the dict's insertion order
RECURSIVE CompoundScan(_, _, _)
CompoundScan(i, desc_lower, found) ==
  IF i > Len(compound_keywords) THEN found
  ELSE CompoundScan(i + 1, desc_lower,
         IF /\ \E kw \in compound_keywords[i][2] : Contains(desc_lower, kw)
            /\ compound_keywords[i][1] \notin Range(found)
         THEN Append(found, compound_keywords[i][1]) ELSE found)

MaxLabels == 5

\* variant: the list is returned without the cut to five labels
generate_labels_from_description_Uncapped(description) ==
  IF description = "" THEN <<>>
  ELSE CompoundScan(1, lower(description),
                    KeywordScan(Words(lower(description)), <<>>))

generate_labels_from_description(description) ==
  IF description = "" THEN <<>>
  ELSE LET found == CompoundScan(1, lower(description),
                      KeywordScan(Words(lower(description)), <<>>))
       IN  SubSeq(found, 1, IF Len(found) < MaxLabels THEN Len(found) ELSE MaxLabels)

(***************************************************************************)
(* Schemas (src/models/schemas.py).  labels holds the set of the list's    *)
(* entries; conversation_history holds one speaker tag per appended line   *)
(* (the line's text is never read back by the agent itself).               *)
(***************************************************************************)
Intent ==
  {"create_issue", "update_issue", "query_issue", "search_issues", "help", "unknown"}

ExtractedIssueData ==
  [issue_type |-> None, priority |-> None, summary |-> None,
   description |-> None, assignee |-> None, project_key |-> None,
   labels |-> {}, issue_key |-> None, status |-> None,
   due_date |-> None, start_date |-> None, parent_key |-> None]

DataFields == DOMAIN ExtractedIssueData

AgentResponse(intent, confidence, extracted_data, missing_fields, next_question, ready_for_jira, response_message, error) ==
  [intent |-> intent, confidence |-> confidence,
   extracted_data |-> extracted_data, missing_fields |-> missing_fields,
   next_question |-> next_question, ready_for_jira |-> ready_for_jira,
   response_message |-> response_message, error |-> error]

ConversationState(user_phone) ==
  [user_phone |-> user_phone, current_intent |-> None,
   partial_issue_data |-> ExtractedIssueData,
   conversation_history |-> <<>>, awaiting_field |-> None]

\* setattr(partial, field, value)
SetAttr(state, field, value) ==
  [state EXCEPT !.partial_issue_data = [@ EXCEPT ![field] = value]]

\* the result of a method: the state it leaves and what it returns
\* (None, Some(response) or Raise(kind))
Result(state, out) == [state |-> state, out |-> out]

(***************************************************************************)
(* Prompts.  Pictographs of the source texts are left out.                 *)
(***************************************************************************)
RECURSIVE OptionLines(_, _)
OptionLines(opts, i) ==
  IF i > Len(opts) THEN ""
  ELSE Ch(ASCII_DIGITS, i + 1) \o ". " \o opts[i]
         \o (IF i < Len(opts) THEN "\n" ELSE "") \o OptionLines(opts, i + 1)

\* the example date the date prompts print (date.today())
TODAY == "2026-01-15"

\* ", ".join(labels), in one of the orders the list can have
RECURSIVE JoinLabels(_)
JoinLabels(labels) ==
  IF labels = {} THEN ""
  ELSE LET l == CHOOSE x \in labels : TRUE
       IN  l \o (IF labels = {l} THEN "" ELSE ", ") \o JoinLabels(labels \ {l})

FieldPromptText(partial, field) ==
  CASE field = "issue_type" ->
         "**Select Work Type:**\n" \o OptionLines(CHOICE_MAPS[field], 1)
           \o "\n\nEnter number or name:"
    [] field = "priority" ->
         "**Select Priority:**\n" \o OptionLines(CHOICE_MAPS[field], 1)
           \o "\n\nEnter number or name:"
    [] field = "status" ->
         "**Select Status:**\n" \o OptionLines(CHOICE_MAPS[field], 1)
           \o "\n\nEnter number or name:"
    [] field = "summary" ->
         "**Enter Issue Title/Summary:**\nProvide a brief, clear title for this issue:"
    [] field = "description" ->
         "**Enter Description:**\nProvide detailed information about this issue (or type 'skip'):"
    [] field = "assignee" ->
         "**Enter Assignee:**\nEnter email address to assign this issue (or type 'skip'):"
    [] field = "start_date" ->
         "**Enter Start Date:**\nFormat: YYYY-MM-DD (e.g., " \o TODAY \o ") or type 'skip':"
    [] field = "due_date" ->
         "**Enter Due Date:**\nFormat: YYYY-MM-DD (e.g., " \o TODAY \o ") or type 'skip':"
    [] field = "parent_key" ->
         "**Enter Parent Issue:**\nLink to parent issue (e.g., TJ-123) or type 'skip':"
    [] field = "labels" ->
         IF partial.labels # {}
         THEN "**Review Labels:**\nAuto-generated labels: **" \o JoinLabels(partial.labels)
                \o "**\n\nAdd more labels (comma-separated), type 'clear' to remove all, or 'skip' to keep current:"
         ELSE "**Enter Labels:**\nAdd labels (comma-separated) or type 'skip':"
    [] OTHER -> "Please provide information for " \o field \o ":"

\* the cross mark that opens an error line
ERROR_MARK == "[x] "

_get_field_prompt(state, field, error) ==
  LET error_msg == IF IsSome(error) THEN ERROR_MARK \o Val(error) \o "\n\n" ELSE ""
      message == error_msg \o FieldPromptText(state.partial_issue_data, field)
  IN  AgentResponse("create_issue", 100, state.partial_issue_data, <<field>>,
                    Some(message), FALSE, message, None)

(***************************************************************************)
(* Guided field collection.                                                *)
(***************************************************************************)
MAX_SUMMARY == 255

\* variant: only skip leaves a field unset
SKIP_TOKENS_SkipOnly == {"skip"}

SKIP_TOKENS == {"skip", "none", ""}

\* FIELD_ORDER.index(field), 1-based; 0 when field is not in FIELD_ORDER
FieldIndex(field) ==
  LET hits == {i \in 1..Len(FIELD_ORDER) : FIELD_ORDER[i] = field}
  IN  IF hits = {} THEN 0 ELSE SetMin(hits)

ReadyMessage(partial) ==
  "Perfect! I have all the information needed. Creating your "
    \o (IF IsSome(partial.issue_type) THEN Val(partial.issue_type) ELSE "None")
    \o " issue now..."

\* variant: after the last field the cursor goes back to the first one
_get_next_field_prompt_WrapsAround(state) ==
  LET current_field == state.awaiting_field
      current_index == IF IsSome(current_field) THEN FieldIndex(Val(current_field)) ELSE 0
      next_field == FIELD_ORDER[(current_index % Len(FIELD_ORDER)) + 1]
      st == [state EXCEPT !.awaiting_field = Some(next_field)]
  IN  Result(st, Some(_get_field_prompt(st, next_field, None)))

\* variant: the cursor moves to the next field the draft does not hold yet
_get_next_field_prompt_SkipsFilled(state) ==
  LET current_field == state.awaiting_field
      current_index == IF IsSome(current_field) THEN FieldIndex(Val(current_field)) ELSE 0
      draft == state.partial_issue_data
      unset(f) == IF f = "labels" THEN draft.labels = {} ELSE draft[f] = None
      later == {i \in (current_index + 1)..Len(FIELD_ORDER) : unset(FIELD_ORDER[i])}
  IN  IF current_index > 0 /\ later # {}
      THEN LET next_field == FIELD_ORDER[SetMin(later)]
               st == [state EXCEPT !.awaiting_field = Some(next_field)]
           IN  Result(st, Some(_get_field_prompt(st, next_field, None)))
      ELSE LET st == [state EXCEPT !.awaiting_field = None]
           IN  Result(st, Some(AgentResponse("create_issue", 100, st.partial_issue_data,
                                 <<>>, None, TRUE,
                                 ReadyMessage(st.partial_issue_data), None)))

_get_next_field_prompt(state) ==
  LET current_field == state.awaiting_field
      current_index == IF IsSome(current_field) THEN FieldIndex(Val(current_field)) ELSE 0
  IN  IF current_index > 0 /\ current_index + 1 <= Len(FIELD_ORDER)
      THEN LET next_field == FIELD_ORDER[current_index + 1]
               st == [state EXCEPT !.awaiting_field = Some(next_field)]
           IN  Result(st, Some(_get_field_prompt(st, next_field, None)))
      ELSE LET st == [state EXCEPT !.awaiting_field = None]
           IN  Result(st, Some(AgentResponse("create_issue", 100, st.partial_issue_data,
                                 <<>>, None, TRUE,
                                 ReadyMessage(st.partial_issue_data), None)))

\* variant: the entries keep their spaces
ManualLabels_KeepsSpaces(user_input) ==
  LET parts == split(user_input, ",")
  IN  {lower(strip(parts[i])) : i \in {j \in DOMAIN parts : strip(parts[j]) # ""}}

\* [l.strip().lower().replace(" ", "-") for l in user_input.split(",") if l.strip()]
ManualLabels(user_input) ==
  LET parts == split(user_input, ",")
  IN  {replace(lower(strip(parts[i])), " ", "-") :
         i \in {j \in DOMAIN parts : strip(parts[j]) # ""}}

Reprompt(state, field, error) ==
  Result(state, Some(_get_field_prompt(state, field, Some(error))))

\* variant: the inferred labels are stored even when none was inferred
DescriptionReply_AlwaysOverwrites(state, user_input) ==
  IF lower(user_input) \in SKIP_TOKENS
  THEN SetAttr(state, "description", None)
  ELSE SetAttr(SetAttr(state, "description", Some(user_input)), "labels",
               Range(generate_labels_from_description(user_input)))

\* the description branch: the draft after the reply
DescriptionReply(state, user_input) ==
  IF lower(user_input) \in SKIP_TOKENS
  THEN SetAttr(state, "description", None)
  ELSE LET st == SetAttr(state, "description", Some(user_input))
           auto_labels == generate_labels_from_description(user_input)
       IN  IF auto_labels # <<>> THEN SetAttr(st, "labels", Range(auto_labels)) ELSE st

_handle_field_input(state, message, field) ==
  LET partial == state.partial_issue_data
      user_input == strip(message)
  IN  CASE field \in DOMAIN CHOICE_MAPS ->
             LET choice == interpret_choice(field, user_input)
             IN  IF IsRaise(choice) THEN Result(state, choice)
                 ELSE IF IsSome(choice)
                      THEN _get_next_field_prompt(SetAttr(state, field, choice))
                      ELSE Reprompt(state, field, "Invalid choice. Please try again.")
        [] field = "summary" ->
             IF user_input # ""
             THEN IF Len(user_input) > MAX_SUMMARY
                  THEN Reprompt(state, field,
                         "Summary too long (" \o ToString(Len(user_input))
                           \o " characters). Please keep it under 255 characters and provide a brief title.")
                  ELSE _get_next_field_prompt(SetAttr(state, "summary", Some(user_input)))
             ELSE Reprompt(state, field, "Summary cannot be empty. Please enter a title.")
        [] field = "description" ->
             _get_next_field_prompt(DescriptionReply(state, user_input))
        [] field = "assignee" ->
             IF lower(user_input) \in SKIP_TOKENS
             THEN _get_next_field_prompt(SetAttr(state, "assignee", None))
             ELSE IF validate_email(user_input)
                  THEN _get_next_field_prompt(SetAttr(state, "assignee", Some(user_input)))
                  ELSE Reprompt(state, field,
                         "Invalid email format. Please enter a valid email or 'skip'.")
        [] field \in {"start_date", "due_date"} ->
             IF lower(user_input) \in SKIP_TOKENS
             THEN _get_next_field_prompt(SetAttr(state, field, None))
             ELSE IF validate_date(user_input)
                  THEN _get_next_field_prompt(SetAttr(state, field, Some(user_input)))
                  ELSE Reprompt(state, field,
                         "Invalid date format. Please use YYYY-MM-DD or 'skip'.")
        [] field = "parent_key" ->
             IF lower(user_input) \in SKIP_TOKENS
             THEN _get_next_field_prompt(SetAttr(state, "parent_key", None))
             ELSE IF IssueKeyPattern(upper(user_input))
                  THEN _get_next_field_prompt(SetAttr(state, "parent_key", Some(upper(user_input))))
                  ELSE Reprompt(state, field,
                         "Invalid issue key format. Use format like TJ-123 or 'skip'.")
        [] field = "labels" ->
             IF lower(user_input) \in SKIP_TOKENS
             THEN _get_next_field_prompt(state)
             ELSE IF lower(user_input) = "clear"
                  THEN _get_next_field_prompt(SetAttr(state, "labels", {}))
                  ELSE _get_next_field_prompt(
                         SetAttr(state, "labels", partial.labels \cup ManualLabels(user_input)))
        [] OTHER -> Result(state, None)

\* a field of the draft that holds no value
Unset(draft, f) == IF f = "labels" THEN draft.labels = {} ELSE draft[f] = None

\* the first field in registry order that is unset in the draft, if any
FirstGap(draft) ==
  LET gaps == {i \in 1..Len(FIELD_ORDER) : Unset(draft, FIELD_ORDER[i])}
  IN  IF gaps = {} THEN None ELSE Some(FIELD_ORDER[SetMin(gaps)])

\* variant: the interview starts from an empty draft
_start_interactive_collection_FreshDraft(state) ==
  LET st == [state EXCEPT !.awaiting_field = Some(FIELD_ORDER[1]),
                          !.partial_issue_data = ExtractedIssueData]
  IN  Result(st, Some(_get_field_prompt(st, Val(st.awaiting_field), None)))

\* variant: the interview starts at the first gap of the draft
_start_interactive_collection_AtFirstGap(state) ==
  LET gap == FirstGap(state.partial_issue_data)
      st == [state EXCEPT !.awaiting_field =
               IF IsSome(gap) THEN gap ELSE Some(FIELD_ORDER[1])]
  IN  Result(st, Some(_get_field_prompt(st, Val(st.awaiting_field), None)))

_start_interactive_collection(state) ==
  LET st == [state EXCEPT !.awaiting_field = Some(FIELD_ORDER[1])]
  IN  Result(st, Some(_get_field_prompt(st, Val(st.awaiting_field), None)))

(***************************************************************************)
(* The Intent Extractor turn.  The extractor (an LLM call) is the          *)
(* environment: llm is what one invocation produced.                       *)
(*   kind "ok"         a JSON object that validates as an AgentResponse    *)
(*   kind "bad_json"   text that json.loads rejects                        *)
(*   kind "bad_schema" JSON that the AgentResponse schema rejects          *)
(*   kind "llm_error"  llm.invoke raised                                   *)
(***************************************************************************)
LLMOutcome(kind, response) == [kind |-> kind, response |-> response]

\* recorded for a turn in which the extractor was not invoked
NoLLM == LLMOutcome("none", None)

JSON_FALLBACK ==
  AgentResponse("unknown", 0, ExtractedIssueData, <<>>, None, FALSE,
    "I understand you want to work with Jira, but I need a clearer request. Try saying 'create an issue' or 'what's the status of TJ-123?'",
    Some("JSON parsing error"))

LLM_ERROR_RESPONSE ==
  AgentResponse("unknown", 0, ExtractedIssueData, <<>>, None, FALSE,
    "I'm having trouble understanding that request. Try 'create an issue' or 'what's the status of TJ-123?'",
    Some("LLM error"))

_merge_issue_data(existing, new) ==
  [f \in DataFields |->
     IF f = "labels" THEN existing.labels \cup new.labels
     ELSE IF new[f] # None THEN new[f] ELSE existing[f]]

_extract_intent_and_data(message, state, llm) ==
  IF llm.kind \in {"llm_error", "bad_schema"} THEN LLM_ERROR_RESPONSE
  ELSE LET agent_response == IF llm.kind = "bad_json" THEN JSON_FALLBACK ELSE llm.response
       IN  IF /\ IsSome(state.current_intent)
              /\ agent_response.intent = Val(state.current_intent)
           THEN [agent_response EXCEPT !.extracted_data =
                   _merge_issue_data(state.partial_issue_data, @)]
           ELSE agent_response

\* variant: with nothing missing the awaited field is cleared, ready or not
_update_conversation_state_ClearsWhenNothingMissing(state, response) ==
  LET st == IF response.intent # "unknown"
            THEN [state EXCEPT !.current_intent = Some(response.intent),
                               !.partial_issue_data = response.extracted_data]
            ELSE state
  IN  IF response.missing_fields # <<>>
      THEN [st EXCEPT !.awaiting_field = Some(response.missing_fields[1])]
      ELSE [st EXCEPT !.awaiting_field = None]

\* variant: an unknown intent resets the stored intent and draft
_update_conversation_state_ResetsOnUnknown(state, response) ==
  LET st == IF response.intent # "unknown"
            THEN [state EXCEPT !.current_intent = Some(response.intent),
                               !.partial_issue_data = response.extracted_data]
            ELSE [state EXCEPT !.current_intent = None,
                               !.partial_issue_data = ExtractedIssueData]
  IN  IF response.missing_fields # <<>>
      THEN [st EXCEPT !.awaiting_field = Some(response.missing_fields[1])]
      ELSE IF ~response.ready_for_jira THEN st
           ELSE [st EXCEPT !.awaiting_field = None]

_update_conversation_state(state, response) ==
  LET st == IF response.intent # "unknown"
            THEN [state EXCEPT !.current_intent = Some(response.intent),
                               !.partial_issue_data = response.extracted_data]
            ELSE state
  IN  IF response.missing_fields # <<>>
      THEN [st EXCEPT !.awaiting_field = Some(response.missing_fields[1])]
      ELSE IF ~response.ready_for_jira THEN st
           ELSE [st EXCEPT !.awaiting_field = None]

(***************************************************************************)
(* The conversation store and the turn.                                    *)
(***************************************************************************)
\* self.conversation_states after get_conversation_state(user_phone)
\* variant: every call stores a new ConversationState for the user
get_conversation_state_AlwaysCreates(states, user_phone) ==
  [u \in DOMAIN states \cup {user_phone} |->
     IF u = user_phone THEN ConversationState(user_phone) ELSE states[u]]

get_conversation_state(states, user_phone) ==
  IF user_phone \in DOMAIN states THEN states
  ELSE states @@ (user_phone :> ConversationState(user_phone))

\* variant: the whole store is emptied
clear_conversation_state_ClearsAll(states, user_phone) ==
  [u \in {} |-> states[u]]

clear_conversation_state(states, user_phone) ==
  [u \in DOMAIN states \ {user_phone} |-> states[u]]

\* what process_message hands back: the store, the response, how often the
\* extractor was invoked, and whether an exception left the method
TurnResult(states, response, llm_calls, raised) ==
  [states |-> states, response |-> response, llm_calls |-> llm_calls, raised |-> raised]

\* variant: the exception is logged and raised again
ExceptHandler_Reraises(states, e) ==
  TurnResult(states,
    AgentResponse("unknown", 0, ExtractedIssueData, <<>>, None, FALSE,
                  "Sorry, I encountered an error. Please try again.", Some(e)),
    0, TRUE)

\* the except clause of process_message
ExceptHandler(states, e) ==
  TurnResult(states,
    AgentResponse("unknown", 0, ExtractedIssueData, <<>>, None, FALSE,
                  "Sorry, I encountered an error. Please try again.", Some(e)),
    0, FALSE)

Say(state, who) ==
  [state EXCEPT !.conversation_history = Append(@, who)]

\* variant: the extractor's response is kept; no interview is started
ExtractorPath_NoInterview(states, user_phone, message, llm) ==
  LET s1 == Say(states[user_phone], "User")
      response == _extract_intent_and_data(message, s1, llm)
      s2 == _update_conversation_state(s1, response)
      s3 == Say(s2, "Agent")
  IN  TurnResult([states EXCEPT ![user_phone] = s3], response, 1, FALSE)

\* the extractor path of process_message (from "Add message to history" on)
ExtractorPath(states, user_phone, message, llm) ==
  LET s1 == Say(states[user_phone], "User")
      extracted == _extract_intent_and_data(message, s1, llm)
      started == IF extracted.intent = "create_issue" /\ ~extracted.ready_for_jira
                 THEN _start_interactive_collection(s1)
                 ELSE Result(s1, Some(extracted))
      response == Val(started.out)
      s2 == _update_conversation_state(started.state, response)
      s3 == Say(s2, "Agent")
  IN  TurnResult([states EXCEPT ![user_phone] = s3], response, 1, FALSE)

\* variant: the reply to a prompt is not handled before the extractor runs
process_message_AlwaysExtracts(store, user_phone, message, llm) ==
  ExtractorPath(get_conversation_state(store, user_phone), user_phone, message, llm)

process_message(store, user_phone, message, llm) ==
  LET states == get_conversation_state(store, user_phone)
      state == states[user_phone]
      awaiting == state.awaiting_field
      guided == IF IsSome(awaiting) /\ Val(awaiting) # ""
                THEN _handle_field_input(state, message, Val(awaiting))
                ELSE Result(state, None)
  IN  IF IsRaise(guided.out)
      THEN ExceptHandler([states EXCEPT ![user_phone] = guided.state], guided.out[2])
      ELSE IF IsSome(guided.out)
           THEN TurnResult(
                  [states EXCEPT ![user_phone] = Say(Say(guided.state, "User"), "Agent")],
                  Val(guided.out), 0, FALSE)
           ELSE ExtractorPath(states, user_phone, message, llm)

(***************************************************************************)
(* Direct validation.                                                      *)
(***************************************************************************)
\* Python truth of an Optional[str]
Truthy(o) == IsSome(o) /\ Val(o) # ""

DEFAULT_PROJECT_KEY == "MFLP"

\* variant: description is not required, as in the guided interview
RequiredMissing_WithoutDescription(issue_data) ==
  SelectSeq(<<"issue_type", "priority", "summary">>,
            LAMBDA f : ~Truthy(issue_data[f]))

RequiredMissing(issue_data) ==
  SelectSeq(<<"issue_type", "priority", "summary", "description">>,
            LAMBDA f : ~Truthy(issue_data[f]))

RECURSIVE JoinFields(_)
JoinFields(fields) ==
  IF fields = <<>> THEN ""
  ELSE Head(fields) \o (IF Len(fields) > 1 THEN ", " ELSE "") \o JoinFields(Tail(fields))

\* variant: labels are inferred from the description whatever the draft holds
AutoLabels_AlwaysInfers(issue_data) ==
  [issue_data EXCEPT !.labels =
     Range(generate_labels_from_description(Val(issue_data.description)))]

\* the draft after "Auto-generate labels from description if not provided"
AutoLabels(issue_data) ==
  IF issue_data.labels = {} /\ Truthy(issue_data.description)
  THEN [issue_data EXCEPT !.labels =
          Range(generate_labels_from_description(Val(issue_data.description)))]
  ELSE issue_data

\* the draft after "Set default project key if not provided"
DefaultProject(issue_data) ==
  IF ~Truthy(issue_data.project_key)
  THEN [issue_data EXCEPT !.project_key = Some(DEFAULT_PROJECT_KEY)]
  ELSE issue_data

\* what the method answers for the draft
DirectResponse(issue_data) ==
  LET missing_fields == RequiredMissing(issue_data)
  IN  IF missing_fields # <<>>
      THEN AgentResponse("create_issue", 100, issue_data, missing_fields, None, FALSE,
             "Missing required fields: " \o JoinFields(missing_fields),
             Some("Required fields missing: " \o JoinFields(missing_fields)))
      ELSE AgentResponse("create_issue", 100, DefaultProject(AutoLabels(issue_data)),
             <<>>, None, TRUE, "Issue data validated and ready for creation", None)

\* variant: the draft is parked in a conversation state, as a turn would
process_direct_issue_creation_StoresDraft(store, issue_data) ==
  LET states == get_conversation_state(store, "api_user")
  IN  TurnResult([states EXCEPT !["api_user"].partial_issue_data = issue_data],
                 DirectResponse(issue_data), 0, FALSE)

\* the method of the agent: store is self.conversation_states, which it
\* leaves alone
process_direct_issue_creation(store, issue_data) ==
  TurnResult(store, DirectResponse(issue_data), 0, FALSE)

(***************************************************************************)
(* Inputs of the model.                                                    *)
(***************************************************************************)
Users == {"u1"}

\* the number of turns whose two history lines the store may hold
MaxTurns == 3

RECURSIVE Repeat(_, _)
Repeat(c, n) ==
  IF n = 0 THEN ""
  ELSE IF n = 1 THEN c
  ELSE Repeat(c, n \div 2) \o Repeat(c, n - n \div 2)

\* a reply one character longer than a summary may be
LONG_TEXT == Repeat("a", MAX_SUMMARY + 1)

\* what a user sends when asked for a field
Replies ==
  {"2", " In Progress ", "²", "skip", "", "NONE", "not-an-email", "a@b.co",
   "2025-02-30", "2025-03-01", "tj-12", "clear", "API timeout on login",
   "Ui, Real Time", "create a task", LONG_TEXT}

\* what a user sends otherwise; the agent only passes it to the extractor
Requests == {"create a task", "what's the status of TJ-123?"}

X_NONE == ExtractedIssueData

X_PARTIAL ==
  [ExtractedIssueData EXCEPT !.priority = Some("High"),
                             !.summary = Some("Fix DB timeout"),
                             !.labels = {"backend"}]

X_FULL ==
  [ExtractedIssueData EXCEPT !.issue_type = Some("Task"),
                             !.priority = Some("Low"),
                             !.summary = Some("Fix DB timeout"),
                             !.description = Some("Queries time out"),
                             !.labels = {"db"}]

X_KEY ==
  [ExtractedIssueData EXCEPT !.issue_key = Some("TJ-123"),
                             !.status = Some("Done")]

\* a well-formed extractor answer
Ok(intent, extracted_data, missing_fields, ready_for_jira) ==
  LLMOutcome("ok",
    AgentResponse(intent, 90, extracted_data, missing_fields,
                  IF missing_fields = <<>> THEN None ELSE Some("Which one?"),
                  ready_for_jira, "Got it.", None))

LLMOutcomes ==
  {LLMOutcome("llm_error", None), LLMOutcome("bad_json", None),
   LLMOutcome("bad_schema", None),
   Ok("create_issue", X_NONE, <<>>, FALSE),
   Ok("create_issue", X_PARTIAL, <<"issue_type", "description">>, FALSE),
   Ok("create_issue", X_FULL, <<>>, TRUE),
   Ok("create_issue", X_PARTIAL, <<"description">>, TRUE),
   Ok("update_issue", X_KEY, <<>>, TRUE),
   Ok("update_issue", X_PARTIAL, <<"issue_key">>, FALSE),
   Ok("update_issue", X_FULL, <<>>, FALSE),
   Ok("query_issue", X_KEY, <<>>, TRUE),
   Ok("query_issue", X_NONE, <<"issue_key">>, FALSE),
   Ok("search_issues", X_PARTIAL, <<>>, TRUE),
   Ok("help", X_NONE, <<>>, FALSE),
   Ok("unknown", X_NONE, <<>>, FALSE),
   Ok("unknown", X_PARTIAL, <<"description", "assignee">>, FALSE)}
    \cup {Ok("update_issue", X_PARTIAL, <<f>>, FALSE) : f \in Range(FIELD_ORDER)}

(***************************************************************************)
(* State: the agent's conversation store, and the last call made on the    *)
(* agent with what it returned.                                            *)
(***************************************************************************)
VARIABLES conversation_states, call

vars == <<conversation_states, call>>

\* the state process_message works on: the stored one, or a fresh one
StateOf(states, u) == IF u \in DOMAIN states THEN states[u] ELSE ConversationState(u)

\* awaiting is the user's awaiting_field when the call arrived
Call(op, user_phone, message, llm, result) ==
  [op |-> op, user_phone |-> user_phone, message |-> message,
   awaiting |-> StateOf(conversation_states, user_phone).awaiting_field,
   llm |-> IF result.llm_calls > 0 THEN llm ELSE NoLLM,
   response |-> result.response, llm_calls |-> result.llm_calls,
   raised |-> result.raised]

NoCall ==
  [op |-> "none", user_phone |-> "", message |-> "", awaiting |-> None,
   llm |-> NoLLM, response |-> JSON_FALLBACK, llm_calls |-> 0, raised |-> FALSE]

Init ==
  /\ conversation_states = <<>>
  /\ call = NoCall

RECURSIVE SumLen(_, _)
SumLen(states, us) ==
  IF us = {} THEN 0
  ELSE LET u == CHOOSE x \in us : TRUE
       IN  Len(states[u].conversation_history) + SumLen(states, us \ {u})

\* the number of history lines the store holds
TotalHistory == SumLen(conversation_states, DOMAIN conversation_states)

\* the user was asked for a field of the registry
AwaitingReply(u) ==
  /\ u \in DOMAIN conversation_states
  /\ IsSome(conversation_states[u].awaiting_field)
  /\ Val(conversation_states[u].awaiting_field) \in Range(FIELD_ORDER)

MessagesFor(u) == IF AwaitingReply(u) THEN Replies ELSE Requests

\* one turn; the extractor's outcome is drawn only if the turn invokes it
ProcessMessage(u, m) ==
  /\ TotalHistory + 2 <= 2 * MaxTurns
  /\ \E probe \in {process_message(conversation_states, u, m, LLMOutcome("llm_error", None))} :
       IF probe.llm_calls = 0
       THEN /\ conversation_states' = probe.states
            /\ call' = Call("process_message", u, m, NoLLM, probe)
       ELSE \E llm \in LLMOutcomes :
              \E result \in {process_message(conversation_states, u, m, llm)} :
                 /\ conversation_states' = result.states
                 /\ call' = Call("process_message", u, m, llm, result)

ClearConversationState(u) ==
  /\ conversation_states' = clear_conversation_state(conversation_states, u)
  /\ call' = [NoCall EXCEPT !.op = "clear_conversation_state", !.user_phone = u]

Next ==
  \/ \E u \in Users : \E m \in MessagesFor(u) : ProcessMessage(u, m)
  \/ \E u \in Users : ClearConversationState(u)

Spec == Init /\ [][Next]_vars

(***************************************************************************)
(* interpret_choice on its own: every menu field with every text below.    *)
(***************************************************************************)
Variants(opt) ==
  {opt, lower(opt), upper(opt), "  " \o opt \o " ",
   replace(lower(opt), " ", ""), replace(lower(opt), " ", "-"),
   replace(upper(opt), " ", "-")}

ChoiceTexts ==
  UNION {Variants(CHOICE_MAPS[f][i]) : f \in DOMAIN CHOICE_MAPS, i \in 1..3}
    \cup Variants("Low") \cup Variants("Lowest")
    \cup {"0", "1", "2", "3", "4", "5", "6", " 2 ", "01", "", "x", "tas", "Done"}

ChoiceCall(field, text, done, result) ==
  [op |-> "interpret_choice", field |-> field, text |-> text,
   done |-> done, result |-> result]

InitChoice ==
  /\ conversation_states = <<>>
  /\ call \in {ChoiceCall(f, t, FALSE, None) : f \in DOMAIN CHOICE_MAPS, t \in ChoiceTexts}

InterpretChoice ==
  /\ call.op = "interpret_choice"
  /\ ~call.done
  /\ call' = ChoiceCall(call.field, call.text, TRUE, interpret_choice(call.field, call.text))
  /\ UNCHANGED conversation_states

NextChoice == InterpretChoice

SpecChoice == InitChoice /\ [][NextChoice]_vars

(***************************************************************************)
(* Properties.                                                             *)
(***************************************************************************)
REQUIRED_FIELDS == {"issue_type", "priority", "summary", "description"}

\* the last call was a turn of process_message
IsTurn == call.op = "process_message"

\* the last call was a turn answered by the Intent Extractor path
IsExtractorTurn == IsTurn /\ call.llm_calls > 0

\* the last call was a turn answered without the Intent Extractor
IsGuidedTurn == IsTurn /\ call.llm_calls = 0

\* C1: a response with ready_for_jira = true is returned by process_message
\* only when issue_type, priority, summary and description are all set in the
\* draft the response carries.
C1_ReadyImpliesRequiredSet ==
  (IsTurn /\ call.response.ready_for_jira)
    => \A f \in REQUIRED_FIELDS : IsSome(call.response.extracted_data[f])

\* C2: every response with ready_for_jira = true has an empty missing_fields
\* list and an unset next_question.
C2_ReadyImpliesNothingMissing ==
  (call.op # "none" /\ call.response.ready_for_jira)
    => (call.response.missing_fields = <<>> /\ call.response.next_question = None)

\* In a step: the user's state when the call arrived, and after it returned.
Before == StateOf(conversation_states, call'.user_phone)

After == conversation_states'[call'.user_phone]

\* the last turn's extractor answer was well formed, with intent create and
\* readiness false
CreateNotReady ==
  /\ IsExtractorTurn
  /\ call.llm.kind = "ok"
  /\ call.llm.response.intent = "create_issue"
  /\ ~call.llm.response.ready_for_jira

C4_MergeKeepsAndTakes ==
  [][(/\ call'.op = "process_message"
      /\ call'.llm_calls > 0
      /\ call'.llm.kind = "ok"
      /\ call'.llm.response.intent # "unknown")
     => \A f \in DataFields \ {"labels"} :
          After.partial_issue_data[f] =
            IF call'.llm.response.extracted_data[f] # None
            THEN call'.llm.response.extracted_data[f]
            ELSE Before.partial_issue_data[f]]_vars

VALIDATED_FIELDS ==
  {"issue_type", "priority", "status", "summary", "assignee",
   "start_date", "due_date", "parent_key"}

\* the reply does not satisfy the rule of field f
FailsRule(f, message) ==
  LET user_input == strip(message)
  IN  CASE f \in DOMAIN CHOICE_MAPS -> ~IsSome(interpret_choice(f, user_input))
        [] f = "summary" -> user_input = "" \/ Len(user_input) > MAX_SUMMARY
        [] f = "assignee" ->
             lower(user_input) \notin SKIP_TOKENS /\ ~validate_email(user_input)
        [] f \in {"start_date", "due_date"} ->
             lower(user_input) \notin SKIP_TOKENS /\ ~validate_date(user_input)
        [] f = "parent_key" ->
             lower(user_input) \notin SKIP_TOKENS /\ ~IssueKeyPattern(upper(user_input))
        [] OTHER -> FALSE

\* the response asks for field f again and opens with an error line
RepromptsWithError(response, f) ==
  /\ ~response.ready_for_jira
  /\ response.missing_fields = <<f>>
  /\ IsSome(response.next_question)
  /\ SubSeq(response.response_message, 1, Len(ERROR_MARK)) = ERROR_MARK

\* C5: a reply that fails the rule of the awaited validated field f leaves
\* awaiting_field = f and the draft unchanged and returns a non-ready response
\* that re-prompts f with an error text.
C5_InvalidReplyReprompts ==
  [][(/\ call'.op = "process_message"
      /\ IsSome(Before.awaiting_field)
      /\ Val(Before.awaiting_field) \in VALIDATED_FIELDS
      /\ FailsRule(Val(Before.awaiting_field), call'.message))
     => /\ After.awaiting_field = Before.awaiting_field
        /\ After.partial_issue_data = Before.partial_issue_data
        /\ RepromptsWithError(call'.response, Val(Before.awaiting_field))]_vars

\* text with case, surrounding blanks, spaces and hyphens removed
Canon(text) == replace(replace(lower(strip(text)), " ", ""), "-", "")

\* what the claim says interpret_choice returns
ExpectedChoice(field, text) ==
  LET opts == CHOICE_MAPS[field]
      t == strip(text)
      byName == {i \in 1..Len(opts) : Canon(opts[i]) = Canon(text)}
  IN  IF t # "" /\ AllAsciiDigits(t) /\ DecimalValue(t) \in 1..Len(opts)
      THEN Some(opts[DecimalValue(t)])
      ELSE IF byName # {} THEN Some(opts[SetMin(byName)]) ELSE None

\* C6: interpret_choice maps every 1-based index and every case-, space- and
\* hyphen-insensitive variant of a declared choice to that choice, and
\* returns no match for every other input.
C6_ChoiceByIndexOrVariant ==
  (call.op = "interpret_choice" /\ call.done)
    => call.result = ExpectedChoice(call.field, call.text)

\* C7 (as stated): if awaiting_field is set when a message arrives, the
\* Intent Extractor is not invoked in that turn.
C7_AwaitingMeansNoExtractor ==
  (IsTurn /\ IsSome(call.awaiting)) => call.llm_calls = 0

\* the turn began with a field of the registry awaited
AwaitedRegistryField ==
  IsTurn /\ IsSome(call.awaiting) /\ Val(call.awaiting) \in Range(FIELD_ORDER)

\* C7 (amended): if awaiting_field names a field of the registry when a
\* message arrives, the Intent Extractor is not invoked in that turn and the
\* response is the guided handler's (or the fault response).
C7_RegistryFieldMeansNoExtractor ==
  AwaitedRegistryField =>
    /\ call.llm_calls = 0
    /\ call.llm = NoLLM
    /\ \/ /\ call.response.intent = "create_issue"
          /\ call.response.extracted_data =
               conversation_states[call.user_phone].partial_issue_data
       \/ call.response.intent = "unknown" /\ IsSome(call.response.error)

\* C7 witness: a reply to the assignee prompt was answered by the guided
\* handler without the extractor.
C7_Witness ==
  /\ AwaitedRegistryField
  /\ call.awaiting = Some("assignee")
  /\ call.llm_calls = 0
  /\ call.response.intent = "create_issue"

\* the labels the extractor returned in the step's turn
ExtractedLabels ==
  IF call'.llm.kind = "ok" THEN call'.llm.response.extracted_data.labels ELSE {}

\* C8: across any extractor turn the stored labels after the turn are the
\* union of the labels stored before and the labels the extractor returned.
C8_ExtractionUnionsLabels ==
  [][(call'.op = "process_message" /\ call'.llm_calls > 0)
     => After.partial_issue_data.labels =
          Before.partial_issue_data.labels \cup ExtractedLabels]_vars

\* the step is a turn answering the description prompt with a description
DescriptionGiven ==
  /\ call'.op = "process_message"
  /\ Before.awaiting_field = Some("description")
  /\ lower(strip(call'.message)) \notin SKIP_TOKENS

InferredLabels == Range(generate_labels_from_description(strip(call'.message)))

\* C9 (as stated): after a non-skip reply to the description prompt the
\* draft's labels are exactly the inferred set.
C9_DescriptionReplacesLabels ==
  [][DescriptionGiven => After.partial_issue_data.labels = InferredLabels]_vars

\* C9 (amended): after a non-skip reply to the description prompt the
\* draft's labels are exactly the inferred set if that set is not empty, and
\* are unchanged if no label is inferred.
C9_DescriptionReplacesLabelsIfAny ==
  [][DescriptionGiven =>
       After.partial_issue_data.labels =
         IF InferredLabels # {} THEN InferredLabels
         ELSE Before.partial_issue_data.labels]_vars

\* C9 witness: a description from which nothing is inferred was stored and
\* the labels collected earlier are still in the draft.
C9_Witness ==
  /\ IsGuidedTurn
  /\ call.awaiting = Some("description")
  /\ LET st == conversation_states[call.user_phone]
     IN  /\ st.partial_issue_data.description = Some(strip(call.message))
         /\ generate_labels_from_description(strip(call.message)) = <<>>
         /\ st.partial_issue_data.labels # {}

WellFormedResponse(r) ==
  /\ DOMAIN r = {"intent", "confidence", "extracted_data", "missing_fields",
                 "next_question", "ready_for_jira", "response_message", "error"}
  /\ r.intent \in Intent
  /\ r.confidence \in 0..100
  /\ DOMAIN r.extracted_data = DataFields
  /\ r.ready_for_jira \in BOOLEAN
  /\ r.response_message \in STRING
  /\ \A i \in DOMAIN r.missing_fields : r.missing_fields[i] \in STRING
  /\ IsNone(r.next_question) \/ IsSome(r.next_question)
  /\ IsNone(r.error) \/ IsSome(r.error)

\* the turn hit a fault: the extractor failed, or the reply handler raised
\* (the except clause answers without an extractor call and without a prompt)
ExtractorFailed == call.llm.kind \in {"llm_error", "bad_json", "bad_schema"}

HandlerRaised ==
  /\ call.llm_calls = 0
  /\ IsSome(call.awaiting)
  /\ Val(call.awaiting) \in DOMAIN CHOICE_MAPS
  /\ IsRaise(interpret_choice(Val(call.awaiting), strip(call.message)))

\* C10: process_message never raises: it returns a well-formed response, a
\* fault yields intent unknown with the error set, and the user's state stays
\* usable (the turn after a fault is answered as if the fault had not been).
C10_NeverRaises ==
  IsTurn =>
    /\ ~call.raised
    /\ WellFormedResponse(call.response)
    /\ (ExtractorFailed \/ HandlerRaised) =>
         /\ call.response.intent = "unknown"
         /\ IsSome(call.response.error)
         /\ ~call.response.ready_for_jira
         /\ conversation_states[call.user_phone].awaiting_field = call.awaiting

\* C10 witness: the reply handler raised inside a turn and the turn returned
\* the fault response.
C10_Witness ==
  /\ IsTurn
  /\ HandlerRaised
  /\ call.response.intent = "unknown"
  /\ call.response.error = Some("invalid literal for int() with base 10: '²'")

(***************************************************************************)
(* Extractor failure.                                                      *)
(***************************************************************************)
\* the step is a turn in which the extractor failed or answered unusably
ExtractorFailsInStep ==
  /\ call'.op = "process_message"
  /\ call'.llm_calls > 0
  /\ call'.llm.kind \in {"llm_error", "bad_json", "bad_schema"}

CLARIFICATIONS == {JSON_FALLBACK.response_message, LLM_ERROR_RESPONSE.response_message}

\* C11: a turn whose extractor call fails, or answers with content that
\* cannot be parsed or validated, returns an unknown-intent, non-ready
\* response with a clarification message, invokes the extractor once, and
\* leaves current_intent, draft and awaiting_field as they were; the history
\* grows by the turn's two lines.
C11_ExtractorFailureDegrades ==
  [][ExtractorFailsInStep =>
       /\ call'.response.intent = "unknown"
       /\ ~call'.response.ready_for_jira
       /\ call'.response.response_message \in CLARIFICATIONS
       /\ IsSome(call'.response.error)
       /\ call'.llm_calls = 1
       /\ ~call'.raised
       /\ After.current_intent = Before.current_intent
       /\ After.partial_issue_data = Before.partial_issue_data
       /\ After.awaiting_field = Before.awaiting_field
       /\ After.conversation_history =
            Before.conversation_history \o <<"User", "Agent">>]_vars

\* C11 witness: the extractor's answer could not be parsed in a turn of a
\* user whose intent and draft were stored by an earlier turn, and they are
\* still stored.
C11_Witness ==
  /\ call.op = "process_message"
  /\ call.llm.kind = "bad_json"
  /\ call.response.intent = "unknown"
  /\ call.user_phone \in DOMAIN conversation_states
  /\ IsSome(conversation_states[call.user_phone].current_intent)
  /\ conversation_states[call.user_phone].partial_issue_data # ExtractedIssueData
  /\ Len(conversation_states[call.user_phone].conversation_history) >= 4

(***************************************************************************)
(* Concurrent turns.  The HTTP transport (Flask's development server,     *)
(* threaded by default) runs process_command, and so process_message, on  *)
(* one thread per request; the agent takes no lock.  SpecConc runs two    *)
(* turns of one user on two threads.  Each thread advances through        *)
(* process_message in the steps below; a step is atomic, so the           *)
(* behaviours are a subset of what the threads can do.  Here call holds   *)
(* the run: the store the run started from, the number of                 *)
(* ConversationState objects created, and each thread's position and      *)
(* locals.  A thread's state is None while the object it works on is the  *)
(* one the store holds for the user, and Some(value) once the store has   *)
(* replaced that object by another (the thread keeps its reference).      *)
(***************************************************************************)
Threads == {1, 2}

ConcUser == "u1"

\* stores a run starts from: no state, a user asked for issue_type, a user
\* with a stored intent and no awaited field
S_EMPTY == <<>>

S_ASKED ==
  process_message(<<>>, ConcUser, "create a task",
                  Ok("create_issue", X_NONE, <<>>, FALSE)).states

S_IDLE ==
  process_message(<<>>, ConcUser, "what's the status of TJ-123?",
                  Ok("query_issue", X_KEY, <<>>, TRUE)).states

ConcStores == {S_EMPTY, S_ASKED, S_IDLE}

ConcMessages == {"2", "create a task"}

ConcLLM ==
  {LLMOutcome("llm_error", None),
   Ok("create_issue", X_PARTIAL, <<"issue_type", "description">>, FALSE),
   Ok("update_issue", X_KEY, <<>>, TRUE)}

Thread(message, llm) ==
  [pc |-> "get_conversation_state", message |-> message, llm |-> llm, state |-> None,
   awaiting |-> None, response |-> None]

InitConc ==
  /\ conversation_states \in ConcStores
  /\ \E m1 \in ConcMessages, m2 \in ConcMessages, l1 \in ConcLLM, l2 \in ConcLLM :
       call = [op |-> "concurrent", start |-> conversation_states, created |-> 0,
               threads |-> <<Thread(m1, l1), Thread(m2, l2)>>]

\* the value of the ConversationState object thread t works on
Cur(t) ==
  IF IsSome(call.threads[t].state) THEN Val(call.threads[t].state)
  ELSE conversation_states[ConcUser]

\* thread t has fetched a state object and not yet returned
Holds(t) == call.threads[t].pc \notin {"get_conversation_state", "create", "done"}

\* thread t assigns v to its state object and moves on
Store(t, v, pc, awaiting, response) ==
  /\ conversation_states' =
       IF IsSome(call.threads[t].state) THEN conversation_states
       ELSE [conversation_states EXCEPT ![ConcUser] = v]
  /\ call' = [call EXCEPT !.threads[t] =
                [@ EXCEPT !.pc = pc, !.awaiting = awaiting, !.response = response,
                          !.state = IF IsSome(@) THEN Some(v) ELSE None]]

\* get_conversation_state: the membership test
CheckUser(t) ==
  /\ call.threads[t].pc = "get_conversation_state"
  /\ call' = [call EXCEPT !.threads[t].pc =
                IF ConcUser \in DOMAIN conversation_states THEN "awaiting" ELSE "create"]
  /\ UNCHANGED conversation_states

\* get_conversation_state: the store of a new ConversationState and the
\* fetch; a thread working on the object stored before keeps that object
CreateState(t) ==
  /\ call.threads[t].pc = "create"
  /\ conversation_states' =
       [u \in DOMAIN conversation_states \cup {ConcUser} |->
          IF u = ConcUser THEN ConversationState(ConcUser) ELSE conversation_states[u]]
  /\ call' = [call EXCEPT
       !.created = @ + 1,
       !.threads = [o \in Threads |->
          IF o = t THEN [call.threads[o] EXCEPT !.pc = "awaiting"]
          ELSE IF Holds(o) /\ IsNone(call.threads[o].state)
               THEN [call.threads[o] EXCEPT !.state = Some(conversation_states[ConcUser])]
               ELSE call.threads[o]]]

\* awaiting = state.awaiting_field
ReadAwaiting(t) ==
  /\ call.threads[t].pc = "awaiting"
  /\ LET awaiting == Cur(t).awaiting_field
     IN  call' = [call EXCEPT !.threads[t] =
                    [@ EXCEPT !.awaiting = awaiting,
                              !.pc = IF IsSome(awaiting) /\ Val(awaiting) # ""
                                     THEN "handle" ELSE "history"]]
  /\ UNCHANGED conversation_states

\* the guided branch: _handle_field_input and, if it answered, the two
\* history lines and the return
HandleFieldInput(t) ==
  /\ call.threads[t].pc = "handle"
  /\ LET th == call.threads[t]
         guided == _handle_field_input(Cur(t), th.message, Val(th.awaiting))
     IN  IF IsRaise(guided.out)
         THEN Store(t, guided.state, "done", th.awaiting,
                    Some(ExceptHandler(<<>>, guided.out[2]).response))
         ELSE IF IsSome(guided.out)
              THEN Store(t, Say(Say(guided.state, "User"), "Agent"), "done",
                         th.awaiting, guided.out)
              ELSE Store(t, guided.state, "history", th.awaiting, None)

\* state.conversation_history.append(f"User: {message}"), after which the
\* thread blocks in llm.invoke
AppendUser(t) ==
  /\ call.threads[t].pc = "history"
  /\ Store(t, Say(Cur(t), "User"), "invoke", call.threads[t].awaiting, None)

\* llm.invoke returned: the merge, the start of the interview, the state
\* update, the agent's history line and the return
FinishExtraction(t) ==
  /\ call.threads[t].pc = "invoke"
  /\ LET th == call.threads[t]
         s1 == Cur(t)
         extracted == _extract_intent_and_data(th.message, s1, th.llm)
         started == IF extracted.intent = "create_issue" /\ ~extracted.ready_for_jira
                    THEN _start_interactive_collection(s1)
                    ELSE Result(s1, Some(extracted))
         response == Val(started.out)
         s2 == _update_conversation_state(started.state, response)
     IN  Store(t, Say(s2, "Agent"), "done", th.awaiting, Some(response))

NextConc ==
  \/ \E t \in Threads : CheckUser(t)
  \/ \E t \in Threads : CreateState(t)
  \/ \E t \in Threads : ReadAwaiting(t)
  \/ \E t \in Threads : HandleFieldInput(t)
  \/ \E t \in Threads : AppendUser(t)
  \/ \E t \in Threads : FinishExtraction(t)

SpecConc == InitConc /\ [][NextConc]_vars

\* both turns have returned
BothDone == \A t \in Threads : call.threads[t].pc = "done"

\* the store after the turn of thread a and then the turn of thread b
Serial(a, b) ==
  LET first == process_message(call.start, ConcUser, call.threads[a].message,
                               call.threads[a].llm)
  IN  process_message(first.states, ConcUser, call.threads[b].message,
                      call.threads[b].llm).states

\* C12: when two turns of one user have been processed concurrently, the
\* store equals the store some serial order of the two turns produces, and at
\* most one ConversationState was created for the user (none if one existed).
C12_ConcurrentTurnsSerialize ==
  (call.op = "concurrent" /\ BothDone) =>
     /\ conversation_states \in {Serial(1, 2), Serial(2, 1)}
     /\ call.created <= (IF ConcUser \in DOMAIN call.start THEN 0 ELSE 1)

(***************************************************************************)
(* Several users.  SpecUsers runs the turns and clears of two users, one  *)
(* call at a time, with few messages and extractor answers.               *)
(***************************************************************************)
Users2 == {"u1", "u2"}

FewReplies == {"2", "skip", "²"}

FewRequests == {"create a task"}

FewOutcomes ==
  {LLMOutcome("llm_error", None),
   Ok("create_issue", X_NONE, <<>>, FALSE),
   Ok("update_issue", X_KEY, <<>>, TRUE),
   Ok("update_issue", X_PARTIAL, <<"issue_key">>, FALSE),
   Ok("unknown", X_PARTIAL, <<"description", "assignee">>, FALSE)}

\* one turn of user u
UserTurn(u, m) ==
  /\ TotalHistory + 2 <= 2 * MaxTurns
  /\ m \in (IF AwaitingReply(u) THEN FewReplies ELSE FewRequests)
  /\ \E probe \in {process_message(conversation_states, u, m, LLMOutcome("llm_error", None))} :
       IF probe.llm_calls = 0
       THEN /\ conversation_states' = probe.states
            /\ call' = Call("process_message", u, m, NoLLM, probe)
       ELSE \E llm \in FewOutcomes :
              \E result \in {process_message(conversation_states, u, m, llm)} :
                 /\ conversation_states' = result.states
                 /\ call' = Call("process_message", u, m, llm, result)

NextUsers ==
  \/ \E u \in Users2 : \E m \in FewReplies \cup FewRequests : UserTurn(u, m)
  \/ \E u \in Users2 : ClearConversationState(u)

SpecUsers == Init /\ [][NextUsers]_vars

\* the step is a call (a turn or a clear) made for user a
StepOf(a) ==
  /\ call'.op \in {"process_message", "clear_conversation_state"}
  /\ call'.user_phone = a

\* user b's conversation state is the same before and after the step
SameStateOf(b) ==
  /\ (b \in DOMAIN conversation_states) <=> (b \in DOMAIN conversation_states')
  /\ b \in DOMAIN conversation_states => conversation_states'[b] = conversation_states[b]

\* C13: a turn or a clear for user A leaves the conversation state of every
\* other user B as it was, whatever the order of A's and B's calls.
C13_OtherUsersUntouched ==
  [][\A a \in Users2 : StepOf(a) => \A b \in Users2 \ {a} : SameStateOf(b)]_vars

\* C13 witness: u1 was cleared while u2 is in the middle of an interview.
C13_Witness ==
  /\ call.op = "clear_conversation_state"
  /\ call.user_phone = "u1"
  /\ "u1" \notin DOMAIN conversation_states
  /\ "u2" \in DOMAIN conversation_states
  /\ conversation_states["u2"].awaiting_field = Some("priority")
  /\ conversation_states["u2"].partial_issue_data.issue_type = Some("Story")

(***************************************************************************)
(* Lifecycle of a conversation state.                                      *)
(***************************************************************************)
\* the step's turn was answered by the except clause of process_message
FaultAnswered ==
  /\ call'.llm_calls = 0
  /\ call'.response = ExceptHandler(<<>>, Val(call'.response.error)).response

\* C14: a user's conversation state is created by the user's first message
\* (from an empty draft, no intent, no awaited field and an empty history),
\* exists after every turn of the user, is never removed or reset by a turn,
\* is removed by clear_conversation_state and by nothing else, and a clear
\* for a user without state changes nothing.
C14_StateLifecycle ==
  [][\A u \in Users2 :
       /\ (StepOf(u) /\ call'.op = "process_message") =>
            /\ u \in DOMAIN conversation_states'
            /\ IF u \in DOMAIN conversation_states
               THEN \/ conversation_states'[u].conversation_history =
                         conversation_states[u].conversation_history \o <<"User", "Agent">>
                    \/ /\ FaultAnswered
                       /\ conversation_states'[u] = conversation_states[u]
               ELSE /\ call'.awaiting = None
                    /\ call'.llm_calls = 1
                    /\ conversation_states'[u].conversation_history = <<"User", "Agent">>
                    /\ call'.response.intent = "unknown" =>
                         /\ conversation_states'[u].current_intent = None
                         /\ conversation_states'[u].partial_issue_data = ExtractedIssueData
       /\ (StepOf(u) /\ call'.op = "clear_conversation_state") =>
            /\ u \notin DOMAIN conversation_states'
            /\ u \notin DOMAIN conversation_states => conversation_states' = conversation_states
       /\ (u \in DOMAIN conversation_states /\ u \notin DOMAIN conversation_states') =>
            (StepOf(u) /\ call'.op = "clear_conversation_state")
       /\ (u \notin DOMAIN conversation_states /\ u \in DOMAIN conversation_states') =>
            (StepOf(u) /\ call'.op = "process_message")]_vars

\* C14 witness: the turn just made created u1's state, which holds that one
\* turn, while u2's state holds the two turns u2 made.
C14_Witness ==
  /\ call.op = "process_message"
  /\ call.user_phone = "u1"
  /\ call.awaiting = None
  /\ conversation_states["u1"].conversation_history = <<"User", "Agent">>
  /\ "u2" \in DOMAIN conversation_states
  /\ Len(conversation_states["u2"].conversation_history) = 4

(***************************************************************************)
(* The command processor (standalone_jira_agent.py): one turn of the      *)
(* agent, then the dispatch of a ready response to the tracker.  The      *)
(* tracker is the environment: outcome is what its one operation did.     *)
(*   "success"  the operation returned success                            *)
(*   "failure"  the operation returned success = False with a message     *)
(*   "raise"    the operation raised                                       *)
(* A tracker call is recorded as the operation with its argument.         *)
(***************************************************************************)
TrackerOutcomes == {"success", "failure", "raise"}

TrackerCall(op, arg) == [op |-> op, arg |-> arg]

\* the filters of the JQL the search is made with, as the fields they test
JqlParts(d) ==
  LET parts == (IF Truthy(d.priority) THEN <<"priority">> ELSE <<>>)
                 \o (IF Truthy(d.issue_type) THEN <<"issuetype">> ELSE <<>>)
                 \o (IF Truthy(d.assignee) /\ Contains(Val(d.assignee), "@")
                     THEN <<"assignee">> ELSE <<>>)
  IN  IF parts = <<>> THEN <<"updated">> ELSE parts

\* what execute_jira_action hands back: the tracker calls it made, in order,
\* and whether an exception left the method
Dispatched(calls, raised) == [calls |-> calls, raised |-> raised]

\* variant: an update is dispatched as an update even without an issue key
execute_jira_action_UpdatesWithoutKey(response, outcome) ==
  IF ~response.ready_for_jira THEN Dispatched(<<>>, FALSE)
  ELSE LET intent == response.intent
           d == response.extracted_data
       IN  CASE intent = "create_issue" ->
                  Dispatched(<<TrackerCall("create_issue", d)>>, FALSE)
             [] intent = "update_issue" ->
                  Dispatched(<<TrackerCall("update_issue", d.issue_key)>>, FALSE)
             [] intent = "query_issue" ->
                  Dispatched(<<TrackerCall("get_issue", d.issue_key)>>, FALSE)
             [] intent = "search_issues" ->
                  Dispatched(<<TrackerCall("search_issues", JqlParts(d))>>, FALSE)
             [] OTHER -> Dispatched(<<>>, FALSE)

\* variant: a tracker call that failed is made once more
execute_jira_action_RetriesOnFailure(response, outcome) ==
  IF ~response.ready_for_jira THEN Dispatched(<<>>, FALSE)
  ELSE LET intent == IF response.intent = "update_issue"
                        /\ ~Truthy(response.extracted_data.issue_key)
                     THEN "create_issue" ELSE response.intent
           d == response.extracted_data
           c == CASE intent = "create_issue" -> <<TrackerCall("create_issue", d)>>
                  [] intent = "update_issue" -> <<TrackerCall("update_issue", d.issue_key)>>
                  [] intent = "query_issue" -> <<TrackerCall("get_issue", d.issue_key)>>
                  [] intent = "search_issues" -> <<TrackerCall("search_issues", JqlParts(d))>>
                  [] OTHER -> <<>>
       IN  Dispatched(IF outcome = "success" THEN c ELSE c \o c, FALSE)

execute_jira_action(response, outcome) ==
  IF ~response.ready_for_jira THEN Dispatched(<<>>, FALSE)
  ELSE LET intent == IF response.intent = "update_issue"
                        /\ ~Truthy(response.extracted_data.issue_key)
                     THEN "create_issue" ELSE response.intent
           d == response.extracted_data
       IN  CASE intent = "create_issue" ->
                  Dispatched(<<TrackerCall("create_issue", d)>>, FALSE)
             [] intent = "update_issue" ->
                  Dispatched(<<TrackerCall("update_issue", d.issue_key)>>, FALSE)
             [] intent = "query_issue" ->
                  Dispatched(<<TrackerCall("get_issue", d.issue_key)>>, FALSE)
             [] intent = "search_issues" ->
                  Dispatched(<<TrackerCall("search_issues", JqlParts(d))>>, FALSE)
             [] OTHER -> Dispatched(<<>>, FALSE)

\* variant: a dispatch the tracker answered with success empties the store
DispatchIfReady_ClearsOnSuccess(turn, outcome) ==
  [turn |-> IF turn.response.ready_for_jira /\ outcome = "success"
            THEN [turn EXCEPT !.states = <<>>] ELSE turn,
   dispatched |-> IF turn.response.ready_for_jira
                  THEN execute_jira_action(turn.response, outcome)
                  ELSE Dispatched(<<>>, FALSE)]

\* the rest of process_text_command, after the turn: the dispatch if the
\* response is ready
DispatchIfReady(turn, outcome) ==
  [turn |-> turn,
   dispatched |-> IF turn.response.ready_for_jira
                  THEN execute_jira_action(turn.response, outcome)
                  ELSE Dispatched(<<>>, FALSE)]

\* process_text_command: the turn, then the dispatch if the response is ready
process_text_command(store, message, user_phone, llm, outcome) ==
  DispatchIfReady(process_message(store, user_phone, message, llm), outcome)

\* extractor answers for the command processor: a ready one for every intent
CmdOutcomes ==
  {LLMOutcome("llm_error", None),
   Ok("create_issue", X_NONE, <<>>, FALSE),
   Ok("create_issue", X_FULL, <<>>, TRUE),
   Ok("update_issue", X_KEY, <<>>, TRUE),
   Ok("update_issue", X_PARTIAL, <<>>, TRUE),
   Ok("update_issue", X_PARTIAL, <<"issue_key">>, FALSE),
   Ok("query_issue", X_KEY, <<>>, TRUE),
   Ok("query_issue", X_NONE, <<"issue_key">>, FALSE),
   Ok("search_issues", X_PARTIAL, <<>>, TRUE),
   Ok("search_issues", X_NONE, <<>>, TRUE),
   Ok("help", X_NONE, <<>>, TRUE),
   Ok("unknown", X_NONE, <<>>, TRUE)}

CmdReplies == {"2", "skip", "²", "Medium"}

\* the record of a command: the turn's record, the tracker calls made for it
\* and how the tracker answered
CommandCall(u, m, llm, outcome, result) ==
  [Call("process_text_command", u, m, llm, result.turn) EXCEPT
     !.raised = result.turn.raised \/ result.dispatched.raised]
  @@ [tracker |-> result.dispatched.calls,
      outcome |-> IF result.dispatched.calls = <<>> THEN "none" ELSE outcome]

\* one command of user u
ProcessTextCommand(u, m) ==
  /\ TotalHistory + 2 <= 2 * MaxTurns
  /\ m \in (IF AwaitingReply(u) THEN CmdReplies ELSE Requests)
  /\ \E llm \in CmdOutcomes, outcome \in TrackerOutcomes :
       \E result \in {process_text_command(conversation_states, m, u, llm, outcome)} :
          /\ conversation_states' = result.turn.states
          /\ call' = CommandCall(u, m, llm, outcome, result)

NextCommand ==
  \/ \E u \in Users : \E m \in CmdReplies \cup Requests : ProcessTextCommand(u, m)
  \/ \E u \in Users : ClearConversationState(u)

SpecCommand == Init /\ [][NextCommand]_vars

IsCommand == call.op = "process_text_command"

\* C15: a command invokes a tracker operation only if its turn's response is
\* ready, and invokes at most one: a failed tracker call is not made again.
C15_DispatchOnlyWhenReadyAndOnce ==
  IsCommand =>
    /\ call.tracker # <<>> => call.response.ready_for_jira
    /\ Len(call.tracker) <= 1
    /\ \A i \in DOMAIN call.tracker :
         call.tracker[i].op \in {"create_issue", "update_issue", "get_issue", "search_issues"}

\* C15 witness: the tracker failed on the create of a ready response and was
\* called once.
C15_Witness ==
  /\ IsCommand
  /\ call.response.ready_for_jira
  /\ call.outcome = "failure"
  /\ Len(call.tracker) = 1
  /\ call.tracker[1].op = "create_issue"
  /\ Len(conversation_states[call.user_phone].conversation_history) >= 4

(***************************************************************************)
(* The start of an interview.                                              *)
(***************************************************************************)
\* the choices a prompt lists: the texts of its lines "<digit>. <text>"
ListedChoices(message) ==
  LET lines == split(message, "\n")
      numbered == SelectSeq(lines, LAMBDA l : /\ Len(l) > 3
                                              /\ Ch(l, 1) \in DIGIT_CHARS
                                              /\ SubSeq(l, 2, 3) = ". ")
  IN  [i \in DOMAIN numbered |-> SubSeq(numbered[i], 4, Len(numbered[i]))]

\* the step is an extractor turn answering create with readiness false for a
\* user whose stored draft is empty
CreateNotReadyOnEmptyDraft ==
  /\ call'.op = "process_message"
  /\ call'.llm_calls > 0
  /\ call'.llm.kind = "ok"
  /\ call'.llm.response.intent = "create_issue"
  /\ ~call'.llm.response.ready_for_jira
  /\ Before.partial_issue_data = ExtractedIssueData

\* C16: when the extractor reports create with readiness false for a user
\* whose draft is empty, the response is not ready, awaiting_field becomes
\* issue_type and the prompt lists exactly Task, Story, Epic.
C16_CreateStartsAtIssueType ==
  [][CreateNotReadyOnEmptyDraft =>
       /\ ~call'.response.ready_for_jira
       /\ call'.response.intent = "create_issue"
       /\ After.awaiting_field = Some("issue_type")
       /\ call'.response.missing_fields = <<"issue_type">>
       /\ call'.response.next_question = Some(call'.response.response_message)
       /\ ListedChoices(call'.response.response_message) = <<"Task", "Story", "Epic">>]_vars

\* C16 witness: a user with no draft asked to create a task, the extractor
\* found some fields but not all, and the user is asked for issue_type.
C16_Witness ==
  /\ CreateNotReady
  /\ call.message = "create a task"
  /\ call.llm.response.extracted_data = X_PARTIAL
  /\ ListedChoices(call.response.response_message) = <<"Task", "Story", "Epic">>
  /\ conversation_states[call.user_phone].awaiting_field = Some("issue_type")
  /\ conversation_states[call.user_phone].conversation_history = <<"User", "Agent">>

(***************************************************************************)
(* Direct validation.  SpecDirect makes direct validation calls between   *)
(* the turns of a user.                                                    *)
(***************************************************************************)
\* drafts a form submits: each required field absent, empty or given, with or
\* without labels and project key, and descriptions from which labels are and
\* are not inferred
DirectDrafts ==
  {[ExtractedIssueData EXCEPT !.issue_type = t, !.priority = p, !.summary = s,
                              !.description = d] :
     t \in {None, Some("Task")}, p \in {None, Some("High")},
     s \in {None, Some(""), Some("Fix login")},
     d \in {None, Some(""), Some("API timeout on login")}}
  \cup
  {[ExtractedIssueData EXCEPT !.issue_type = Some("Task"), !.priority = Some("High"),
                              !.summary = Some("Fix login"),
                              !.description = d, !.labels = l, !.project_key = k] :
     d \in {Some(""), Some("API timeout on login"), Some("plain words")},
     l \in {{}, {"manual"}},
     k \in {None, Some(""), Some("TJ")}}

DirectReplies == {"2", "skip"}

DirectOutcomes ==
  {Ok("create_issue", X_NONE, <<>>, FALSE), Ok("update_issue", X_PARTIAL, <<>>, TRUE)}

\* one turn of user u
DirectUserTurn(u, m) ==
  /\ TotalHistory + 2 <= 2 * MaxTurns
  /\ m \in (IF AwaitingReply(u) THEN DirectReplies ELSE FewRequests)
  /\ \E llm \in DirectOutcomes :
       \E result \in {process_message(conversation_states, u, m, llm)} :
          /\ conversation_states' = result.states
          /\ call' = Call("process_message", u, m, llm, result)

\* one direct validation; the record holds the draft as it was submitted
ProcessDirectIssueCreation(issue_data) ==
  \E result \in {process_direct_issue_creation(conversation_states, issue_data)} :
      /\ conversation_states' = result.states
      /\ call' = [NoCall EXCEPT !.op = "process_direct_issue_creation",
                                !.response = result.response,
                                !.raised = result.raised]
                 @@ [issue_data |-> issue_data]

NextDirect ==
  \/ \E u \in Users : \E m \in DirectReplies \cup FewRequests : DirectUserTurn(u, m)
  \/ \E issue_data \in DirectDrafts : ProcessDirectIssueCreation(issue_data)

SpecDirect == Init /\ [][NextDirect]_vars

IsDirect == call.op = "process_direct_issue_creation"

\* C17: process_direct_issue_creation leaves the conversation store as it
\* is: every user's state, awaiting_field included, is the same before and
\* after the call, whatever the draft and the store.
C17_DirectLeavesStore ==
  [][call'.op = "process_direct_issue_creation" =>
       conversation_states' = conversation_states]_vars

\* C17 witness: a draft was validated as ready while a user is in the middle
\* of an interview.
C17_Witness ==
  /\ IsDirect
  /\ call.response.ready_for_jira
  /\ "u1" \in DOMAIN conversation_states
  /\ conversation_states["u1"].awaiting_field = Some("priority")
  /\ conversation_states["u1"].partial_issue_data.issue_type = Some("Story")

\* a field of a submitted draft is set when it holds a non-empty value
IsSet(issue_data, f) == IsSome(issue_data[f]) /\ Val(issue_data[f]) # ""

REQUIRED_ORDER == <<"issue_type", "priority", "summary", "description">>

\* C18: process_direct_issue_creation answers ready exactly when issue_type,
\* priority, summary and description are all set in the submitted draft;
\* otherwise the response is not ready, its missing_fields lists the unset
\* required fields in the order issue_type, priority, summary, description,
\* and it carries an error.
C18_DirectReadyIffRequiredSet ==
  IsDirect =>
    LET unset == SelectSeq(REQUIRED_ORDER, LAMBDA f : ~IsSet(call.issue_data, f))
    IN  /\ call.response.ready_for_jira <=> unset = <<>>
        /\ call.response.missing_fields = unset
        /\ ~call.response.ready_for_jira => IsSome(call.response.error)
        /\ call.response.ready_for_jira => IsNone(call.response.error)

\* C18 witness: a draft without priority and with an empty description was
\* answered with exactly those two fields missing.
C18_Witness ==
  /\ IsDirect
  /\ call.issue_data.description = Some("")
  /\ call.issue_data.summary = Some("Fix login")
  /\ call.response.missing_fields = <<"priority", "description">>
  /\ ~call.response.ready_for_jira

\* C19: in a ready answer of process_direct_issue_creation the draft's labels
\* are the labels inferred from the description if the submitted draft had
\* none and the submitted labels otherwise, and project_key is the submitted
\* one if set and the default key otherwise.
C19_DirectLabelsAndProject ==
  (IsDirect /\ call.response.ready_for_jira) =>
    /\ call.response.extracted_data.labels =
         IF call.issue_data.labels = {}
         THEN Range(generate_labels_from_description(Val(call.issue_data.description)))
         ELSE call.issue_data.labels
    /\ call.response.extracted_data.project_key =
         IF IsSet(call.issue_data, "project_key") THEN call.issue_data.project_key
         ELSE Some("MFLP")
    /\ \A f \in DataFields \ {"labels", "project_key"} :
         call.response.extracted_data[f] = call.issue_data[f]

\* C19 witness: a draft with no labels and no project key came back ready
\* with the labels of its description and the default key.
C19_Witness ==
  /\ IsDirect
  /\ call.response.ready_for_jira
  /\ call.issue_data.labels = {}
  /\ call.issue_data.project_key = None
  /\ call.response.extracted_data.labels = {"api", "timeout", "login", "real-time"}
  /\ call.response.extracted_data.project_key = Some("MFLP")

(***************************************************************************)
(* generate_labels_from_description on its own: every text of up to       *)
(* MaxPhrases phrases.                                                     *)
(***************************************************************************)
MaxPhrases == 3

\* phrases with vocabulary words in either case, words that only trigger a
\* compound label, punctuation between words, and words of neither kind
Phrases ==
  {"API timeout on login for mobile users", "bug", "Login", "authentication",
   "SSO", "end", "Real-Time", "users,api;bug"}

RECURSIVE TextsOf(_)
TextsOf(n) ==
  IF n = 0 THEN {""}
  ELSE LET shorter == TextsOf(n - 1)
       IN  shorter \cup {IF t = "" THEN ph ELSE t \o " " \o ph :
                           t \in shorter, ph \in Phrases}

LabelTexts == TextsOf(MaxPhrases)

LabelCall(text, done, labels) ==
  [op |-> "generate_labels_from_description", text |-> text, done |-> done,
   labels |-> labels]

InitLabels ==
  /\ conversation_states = <<>>
  /\ call \in {LabelCall(t, FALSE, <<>>) : t \in LabelTexts}

GenerateLabels ==
  /\ call.op = "generate_labels_from_description"
  /\ ~call.done
  /\ call' = LabelCall(call.text, TRUE, generate_labels_from_description(call.text))
  /\ UNCHANGED conversation_states

NextLabels == GenerateLabels

SpecLabels == InitLabels /\ [][NextLabels]_vars

COMPOUND_LABELS == {compound_keywords[i][1] : i \in DOMAIN compound_keywords}

\* the position at which word w is first seen among the words of the text
FirstSeen(ws, w) == SetMin({i \in DOMAIN ws : ws[i] = w})

\* C20: generate_labels_from_description returns at most 5 labels without
\* duplicates, all lowercase; the vocabulary keywords among them are words of
\* the text and stand in the order in which the text first shows them, the
\* compound-phrase labels stand after every keyword, and when fewer than 5
\* labels are returned no vocabulary word of the text is left out.
C20_LabelsOrderedDistinctCapped ==
  (call.op = "generate_labels_from_description" /\ call.done) =>
    LET labels == call.labels
        ws == Words(lower(call.text))
        isKw(l) == l \in tech_keywords
    IN  /\ Len(labels) <= 5
        /\ \A i, j \in DOMAIN labels : i # j => labels[i] # labels[j]
        /\ \A i \in DOMAIN labels : lower(labels[i]) = labels[i]
        /\ \A i \in DOMAIN labels :
             \/ isKw(labels[i]) /\ labels[i] \in Range(ws)
             \/ labels[i] \in COMPOUND_LABELS
        /\ \A i, j \in DOMAIN labels :
             (i < j /\ isKw(labels[i]) /\ isKw(labels[j]))
               => FirstSeen(ws, labels[i]) < FirstSeen(ws, labels[j])
        /\ \A i, j \in DOMAIN labels :
             (labels[i] \in COMPOUND_LABELS /\ isKw(labels[j])) => j < i
        /\ Len(labels) < 5 =>
             \A k \in DOMAIN ws : isKw(ws[k]) => ws[k] \in Range(labels)

\* C20 witness: the example text with one more phrase yields five labels,
\* api, login and mobile among them in that order, and the cut drops a label.
C20_Witness ==
  /\ call.op = "generate_labels_from_description"
  /\ call.done
  /\ call.text = "API timeout on login for mobile users bug"
  /\ call.labels = <<"api", "timeout", "login", "mobile", "bug">>

(***************************************************************************)
(* validate_date on its own: every text below.                            *)
(***************************************************************************)
DateYears == {"2024", "2025", "1900", "2000", "0000", "202"}

DateMonths == {"01", "02", "2", "04", "4", "12", "13", "00", " 3"}

DateDays == {"01", "1", " 1", "28", "29", "30", "31", "32", "00"}

DateTexts ==
  {y \o "-" \o m \o "-" \o d : y \in DateYears, m \in DateMonths, d \in DateDays}
    \cup {"", " ", " 2025-03-01 ", "2025/03/01", "20250301", "2025-03-01x",
          "2025-03-001", "25-03-01", "2025-0301", "tomorrow", "skip"}

DateCall(text, done, result) ==
  [op |-> "validate_date", text |-> text, done |-> done, result |-> result]

InitDate ==
  /\ conversation_states = <<>>
  /\ call \in {DateCall(t, FALSE, FALSE) : t \in DateTexts}

ValidateDate ==
  /\ call.op = "validate_date"
  /\ ~call.done
  /\ call' = DateCall(call.text, TRUE, validate_date(call.text))
  /\ UNCHANGED conversation_states

NextDate == ValidateDate

SpecDate == InitDate /\ [][NextDate]_vars

\* s has the form YYYY-MM-DD (four, two and two decimal digits) and names a
\* day of the calendar
ExactCalendarDate(s) ==
  /\ Len(s) = 10
  /\ AllAsciiDigits(SubSeq(s, 1, 4))
  /\ Ch(s, 5) = "-"
  /\ AllAsciiDigits(SubSeq(s, 6, 7))
  /\ Ch(s, 8) = "-"
  /\ AllAsciiDigits(SubSeq(s, 9, 10))
  /\ LET y == DecimalValue(SubSeq(s, 1, 4))
         m == DecimalValue(SubSeq(s, 6, 7))
         d == DecimalValue(SubSeq(s, 9, 10))
     IN  y >= 1 /\ m \in 1..12 /\ d \in 1..DaysInMonth(y, m)

\* C21: validate_date accepts the empty text and otherwise exactly the texts
\* of the form YYYY-MM-DD, with a four-digit year, a two-digit month and a
\* two-digit day, that name a real calendar date; every other text is
\* rejected.  (Blanks around the text are not counted against it.)
C21_ValidDateExactCalendar ==
  (call.op = "validate_date" /\ call.done)
    => call.result = (strip(call.text) = "" \/ ExactCalendarDate(strip(call.text)))

(***************************************************************************)
(* The cursor of the interview.                                            *)
(***************************************************************************)
\* the step is a turn in which the reply to the awaited registry field
\* satisfies the field's rule
AcceptedReply ==
  /\ call'.op = "process_message"
  /\ IsSome(Before.awaiting_field)
  /\ Val(Before.awaiting_field) \in Range(FIELD_ORDER)
  /\ ~FailsRule(Val(Before.awaiting_field), call'.message)

\* the first field after position i of the registry that is unset in the draft
NextGap(draft, i) ==
  LET gaps == {j \in (i + 1)..Len(FIELD_ORDER) : Unset(draft, FIELD_ORDER[j])}
  IN  IF gaps = {} THEN None ELSE Some(FIELD_ORDER[SetMin(gaps)])

\* C22 (as stated): an accepted reply for field f moves awaiting_field to the
\* next field after f in registry order that is still unset in the draft, or
\* returns Ready with awaiting_field unset if there is none.
C22_AdvancesToNextUnset ==
  [][AcceptedReply =>
       LET gap == NextGap(After.partial_issue_data, FieldIndex(Val(Before.awaiting_field)))
       IN  /\ After.awaiting_field = gap
           /\ call'.response.ready_for_jira <=> (gap = None)]_vars

\* C22 (amended): an accepted reply for field f moves awaiting_field to the
\* field that follows f in the registry, whether or not the draft holds a
\* value for it, and the response prompts for that field; an accepted reply
\* for the last field, labels, returns Ready with awaiting_field unset.
C22_AdvancesToNextField ==
  [][AcceptedReply =>
       LET i == FieldIndex(Val(Before.awaiting_field))
       IN  /\ call'.llm_calls = 0
           /\ call'.response.intent = "create_issue"
           /\ call'.response.extracted_data = After.partial_issue_data
           /\ IF i < Len(FIELD_ORDER)
              THEN /\ After.awaiting_field = Some(FIELD_ORDER[i + 1])
                   /\ ~call'.response.ready_for_jira
                   /\ call'.response.missing_fields = <<FIELD_ORDER[i + 1]>>
                   /\ call'.response.response_message =
                        FieldPromptText(After.partial_issue_data, FIELD_ORDER[i + 1])
              ELSE /\ After.awaiting_field = None
                   /\ call'.response.ready_for_jira
                   /\ call'.response.missing_fields = <<>>]_vars

\* C22 witness: in a create conversation the reply to the issue_type prompt
\* was accepted and the user is asked for priority, which the draft holds.
C22_Witness ==
  /\ IsGuidedTurn
  /\ call.awaiting = Some("issue_type")
  /\ call.message = "2"
  /\ LET st == conversation_states[call.user_phone]
     IN  /\ st.current_intent = Some("create_issue")
         /\ st.awaiting_field = Some("priority")
         /\ st.partial_issue_data.issue_type = Some("Story")
         /\ st.partial_issue_data.priority = Some("Low")

(***************************************************************************)
(* Whole interviews.  SpecInterview runs up to MaxInterviews guided        *)
(* interviews of one user from the request that starts them to Ready.      *)
(* Each prompt is answered by a reply that satisfies the field's rule or,  *)
(* up to MaxRejected times in an interview, by one that does not.  Beside  *)
(* the turn, call counts the interviews started and the replies of both    *)
(* kinds given in the current one, and the labels the draft held when the  *)
(* current interview started.                                              *)
(***************************************************************************)
MaxRejected == 1

MaxInterviews == 2

InterviewUser == "u1"

\* replies that satisfy the rule of field f
ValidReplies(f) ==
  CASE f \in DOMAIN CHOICE_MAPS -> {"2"}
    [] f = "summary" -> {"Fix login"}
    [] f = "description" -> {"API timeout on login", "plain words", "skip"}
    [] f = "assignee" -> {"a@b.co", "skip"}
    [] f \in {"start_date", "due_date"} -> {"2025-03-01", "skip"}
    [] f = "parent_key" -> {"tj-12", "skip"}
    [] f = "labels" -> {"skip", "clear", "Ui, Real Time"}
    [] OTHER -> {}

\* replies that do not
InvalidReplies(f) ==
  CASE f \in DOMAIN CHOICE_MAPS -> {"x", "²"}
    [] f = "summary" -> {""}
    [] f = "assignee" -> {"not-an-email"}
    [] f \in {"start_date", "due_date"} -> {"2025-02-30"}
    [] f = "parent_key" -> {"x"}
    [] OTHER -> {}

\* the field the user is asked for
Asked == Val(conversation_states[InterviewUser].awaiting_field)

InterviewCall(m, llm, result, interviews, accepted, rejected, carried) ==
  Call("process_message", InterviewUser, m, llm, result)
    @@ [interviews |-> interviews, accepted |-> accepted, rejected |-> rejected,
        carried |-> carried]

InitInterview ==
  /\ conversation_states = <<>>
  /\ call = NoCall @@ [interviews |-> 0, accepted |-> 0, rejected |-> 0, carried |-> {}]

\* the user asks for a new issue and the extractor reports create, not ready
StartInterview ==
  /\ ~AwaitingReply(InterviewUser)
  /\ call.interviews < MaxInterviews
  /\ \E llm \in {Ok("create_issue", X_NONE, <<>>, FALSE)} :
       \E result \in {process_message(conversation_states, InterviewUser, "create a task", llm)} :
          /\ conversation_states' = result.states
          /\ call' = InterviewCall("create a task", llm, result, call.interviews + 1, 0, 0,
                StateOf(conversation_states, InterviewUser).partial_issue_data.labels)

\* the user answers the prompt with a reply that satisfies the field's rule
ValidReply ==
  /\ AwaitingReply(InterviewUser)
  /\ \E m \in ValidReplies(Asked) :
       \E result \in {process_message(conversation_states, InterviewUser, m, NoLLM)} :
          /\ conversation_states' = result.states
          /\ call' = InterviewCall(m, NoLLM, result, call.interviews,
                                   call.accepted + 1, call.rejected, call.carried)

\* the user answers the prompt with a reply that does not
InvalidReply ==
  /\ AwaitingReply(InterviewUser)
  /\ call.rejected < MaxRejected
  /\ \E m \in InvalidReplies(Asked) :
       \E result \in {process_message(conversation_states, InterviewUser, m, NoLLM)} :
          /\ conversation_states' = result.states
          /\ call' = InterviewCall(m, NoLLM, result, call.interviews,
                                   call.accepted, call.rejected + 1, call.carried)

NextInterview ==
  \/ StartInterview
  \/ ValidReply
  \/ InvalidReply

SpecInterview == InitInterview /\ [][NextInterview]_vars

\* Every prompt eventually receives a valid reply: weak fairness of
\* ValidReply.  WF_vars(ValidReply) is written out by its definition,
\* []<>~ENABLED <<ValidReply>>_vars \/ []<><<ValidReply>>_vars, with the
\* enabling condition in closed form: ValidReply can be taken exactly when
\* a registry field is awaited (every field has a valid reply, and a turn
\* always adds to the history).
SpecInterviewFair == SpecInterview /\ ([]<>(~AwaitingReply(InterviewUser)) \/ []<><<ValidReply>>_vars)

\* the last turn returned Ready and no field is awaited
InterviewReady ==
  /\ IsTurn
  /\ call.response.ready_for_jira
  /\ call.response.intent = "create_issue"
  /\ conversation_states[InterviewUser].awaiting_field = None

\* C23: within a guided interview an accepted reply moves awaiting_field
\* strictly forward in registry order or returns Ready (the reply '2' to the
\* issue_type prompt sets issue_type to Story and moves to priority), Ready
\* is reached after at most 10 accepted replies, and if every prompt
\* eventually receives a valid reply the interview eventually returns Ready
\* with awaiting_field unset.
C23_InterviewMovesForwardToReady ==
  /\ [][AcceptedReply =>
          /\ IF IsSome(After.awaiting_field)
             THEN /\ FieldIndex(Val(After.awaiting_field)) >
                       FieldIndex(Val(Before.awaiting_field))
                  /\ ~call'.response.ready_for_jira
             ELSE call'.response.ready_for_jira
          /\ (Before.awaiting_field = Some("issue_type") /\ call'.message = "2") =>
               /\ After.partial_issue_data.issue_type = Some(CHOICE_MAPS.issue_type[2])
               /\ After.awaiting_field = Some("priority")]_vars
  /\ [](call.accepted <= Len(FIELD_ORDER))
  /\ [](InterviewReady => call.accepted <= Len(FIELD_ORDER))
  /\ (AwaitingReply(InterviewUser) ~> InterviewReady)

\* C23 witness: the second interview of the user reached Ready with its
\* tenth accepted reply, after MaxRejected replies were turned down.
C23_Witness ==
  /\ InterviewReady
  /\ call.interviews = 2
  /\ call.accepted = Len(FIELD_ORDER)
  /\ call.rejected = MaxRejected
  /\ call.awaiting = Some("labels")

(***************************************************************************)
(* The awaited field after an extractor turn.                              *)
(***************************************************************************)
\* C24: after every Intent Extractor turn, awaiting_field is the first entry
\* of the response's missing_fields if there is one; otherwise it is what it
\* was before the turn if the response is not ready, and unset if it is.
C24_AwaitingFollowsMissingFields ==
  [][(call'.op = "process_message" /\ call'.llm_calls > 0) =>
       After.awaiting_field =
         IF call'.response.missing_fields # <<>>
         THEN Some(call'.response.missing_fields[1])
         ELSE IF ~call'.response.ready_for_jira
              THEN Before.awaiting_field
              ELSE None]_vars

\* C24 witness: a user asked for issue_key got a response with nothing
\* missing and not ready from an extractor turn, and is still asked for
\* issue_key.
C24_Witness ==
  /\ IsExtractorTurn
  /\ call.awaiting = Some("issue_key")
  /\ call.response.missing_fields = <<>>
  /\ ~call.response.ready_for_jira
  /\ conversation_states[call.user_phone].awaiting_field = Some("issue_key")

(***************************************************************************)
(* The labels prompt.                                                      *)
(***************************************************************************)
\* the step is a turn answering the labels prompt
LabelsReply ==
  /\ call'.op = "process_message"
  /\ Before.awaiting_field = Some("labels")

\* the comma-separated entries of a reply, each trimmed, lowercased and with
\* spaces replaced by hyphens (blank entries name no label)
EntriesOf(text) ==
  LET parts == split(text, ",")
      trimmed == {strip(parts[i]) : i \in DOMAIN parts} \ {""}
  IN  {replace(lower(e), " ", "-") : e \in trimmed}

\* C25: at the labels prompt a reply of skip, none or nothing leaves the
\* draft's labels as they were, clear empties them, and any other reply makes
\* them the union of the previous labels and the reply's entries; in every
\* case the reply is accepted, nothing else of the draft changes and the
\* cursor advances past labels, the last field, to Ready.
C25_LabelsReply ==
  [][LabelsReply =>
       LET token == lower(strip(call'.message))
           was == Before.partial_issue_data
           now == After.partial_issue_data
       IN  /\ now.labels =
                IF token \in {"skip", "none", ""} THEN was.labels
                ELSE IF token = "clear" THEN {}
                ELSE was.labels \cup EntriesOf(call'.message)
           /\ \A f \in DataFields \ {"labels"} : now[f] = was[f]
           /\ call'.llm_calls = 0
           /\ call'.response.error = None
           /\ call'.response.ready_for_jira
           /\ call'.response.extracted_data = now
           /\ After.awaiting_field = None]_vars

\* C25 witness: the reply 'Ui, Real Time' to the labels prompt added ui and
\* real-time to the label the draft held.
C25_Witness ==
  /\ IsGuidedTurn
  /\ call.awaiting = Some("labels")
  /\ call.message = "Ui, Real Time"
  /\ call.response.ready_for_jira
  /\ conversation_states[call.user_phone].partial_issue_data.labels =
       {"backend", "ui", "real-time"}

(***************************************************************************)
(* Leaving an optional field unset.                                        *)
(***************************************************************************)
SKIPPABLE_FIELDS == {"assignee", "start_date", "due_date", "parent_key", "description"}

\* the step is a turn answering the prompt of a skippable field with skip,
\* none (in any letter case) or nothing
SkipReply ==
  /\ call'.op = "process_message"
  /\ IsSome(Before.awaiting_field)
  /\ Val(Before.awaiting_field) \in SKIPPABLE_FIELDS
  /\ lower(strip(call'.message)) \in {"skip", "none", ""}

\* C26: for assignee, start_date, due_date, parent_key and description, a
\* reply of skip, none (in any letter case) or nothing is accepted without a
\* validation error, leaves the field unset and the rest of the draft as it
\* was, and moves the cursor to the next field.
C26_SkipLeavesFieldUnset ==
  [][SkipReply =>
       LET f == Val(Before.awaiting_field)
           next_field == FIELD_ORDER[FieldIndex(f) + 1]
       IN  /\ After.partial_issue_data[f] = None
           /\ \A g \in DataFields \ {f} :
                After.partial_issue_data[g] = Before.partial_issue_data[g]
           /\ call'.llm_calls = 0
           /\ call'.response.intent = "create_issue"
           /\ call'.response.error = None
           /\ call'.response.response_message =
                FieldPromptText(After.partial_issue_data, next_field)
           /\ call'.response.missing_fields = <<next_field>>
           /\ After.awaiting_field = Some(next_field)]_vars

\* C26 witness: 'skip' at the description prompt left description unset in a
\* draft that held a description, and the user is asked for the assignee.
C26_Witness ==
  /\ IsGuidedTurn
  /\ call.awaiting = Some("description")
  /\ call.message = "skip"
  /\ LET st == conversation_states[call.user_phone]
     IN  /\ st.awaiting_field = Some("assignee")
         /\ st.partial_issue_data.description = None
         /\ st.partial_issue_data.issue_type = X_FULL.issue_type
         /\ st.partial_issue_data.priority = X_PARTIAL.priority
         /\ st.partial_issue_data.labels = {"db", "backend"}

(***************************************************************************)
(* The conversation state across a dispatch.                               *)
(***************************************************************************)
\* the step is a command whose response was dispatched to the tracker
DispatchedStep ==
  /\ call'.op = "process_text_command"
  /\ call'.tracker # <<>>

\* C27: the dispatch of a ready response leaves the user's conversation
\* state as the turn left it, whether the tracker call succeeds, fails or
\* raises: the store after the command is the store after process_message,
\* and the user's state still holds the intent and the draft of the response.
C27_DispatchLeavesState ==
  [][DispatchedStep =>
       /\ call'.outcome \in TrackerOutcomes
       /\ conversation_states' =
            process_message(conversation_states, call'.user_phone,
                            call'.message, call'.llm).states
       /\ After.current_intent = Some(call'.response.intent)
       /\ After.partial_issue_data = call'.response.extracted_data
       /\ After.conversation_history =
            Before.conversation_history \o <<"User", "Agent">>]_vars

\* C27 witness: the tracker created the issue of a ready create response
\* and the user's state still holds the intent, the draft and the history
\* of both of the user's turns.
C27_Witness ==
  /\ IsCommand
  /\ call.outcome = "success"
  /\ Len(call.tracker) = 1
  /\ call.tracker[1] = TrackerCall("create_issue", X_FULL)
  /\ LET st == conversation_states[call.user_phone]
     IN  /\ st.current_intent = Some("create_issue")
         /\ st.partial_issue_data = X_FULL
         /\ st.awaiting_field = None
         /\ Len(st.conversation_history) = 4

(***************************************************************************)
(* The conversation an interview belongs to.                               *)
(***************************************************************************)
\* C28: between turns, a user whose awaiting_field names a registry field
\* (so that the next message is answered by guided collection, with a
\* create_issue response) has current_intent create_issue.
C28_GuidedOnlyInCreate ==
  \A u \in DOMAIN conversation_states :
    (/\ IsSome(conversation_states[u].awaiting_field)
     /\ Val(conversation_states[u].awaiting_field) \in Range(FIELD_ORDER))
      => conversation_states[u].current_intent = Some("create_issue")

(***************************************************************************)
(* The draft after Ready.                                                  *)
(***************************************************************************)
\* the step is the accepted reply to the labels prompt, which ends an
\* interview
ReachesReady ==
  /\ AcceptedReply
  /\ Before.awaiting_field = Some("labels")

\* the step is the request that starts a later interview of the user
StartsLaterInterview ==
  /\ call'.op = "process_message"
  /\ call'.llm_calls > 0
  /\ call'.interviews > 1
  /\ call'.accepted = 0

\* the labels inferred from the description the draft holds
InferredFrom(draft) ==
  IF draft.description = None THEN {}
  ELSE Range(generate_labels_from_description(Val(draft.description)))

\* C29: reaching Ready in guided collection clears awaiting_field only, the
\* stored intent and draft stay; the next create conversation of the user
\* starts from that draft; and 'skip' at its labels prompt gives a Ready
\* draft with the labels the previous issue had, unless the description
\* given in the new interview inferred labels, which are then the draft's.
C29_DraftOutlivesReady ==
  [][/\ ReachesReady =>
          /\ call'.response.ready_for_jira
          /\ After.awaiting_field = None
          /\ After.current_intent = Some("create_issue")
          /\ After.partial_issue_data = call'.response.extracted_data
          /\ \A f \in DataFields \ {"labels"} :
               After.partial_issue_data[f] = Before.partial_issue_data[f]
     /\ StartsLaterInterview =>
          /\ Before.awaiting_field = None
          /\ After.partial_issue_data = Before.partial_issue_data
          /\ After.current_intent = Some("create_issue")
          /\ After.awaiting_field = Some("issue_type")
          /\ call'.response.extracted_data = Before.partial_issue_data
     /\ (ReachesReady /\ call'.interviews > 1 /\ call'.message = "skip") =>
          After.partial_issue_data.labels =
            IF InferredFrom(After.partial_issue_data) # {}
            THEN InferredFrom(After.partial_issue_data)
            ELSE call'.carried]_vars

\* C29 witness: the second interview of the user, in which the description
\* was skipped, ended by 'skip' at the labels prompt in a Ready draft with
\* the labels entered in the first interview.
C29_Witness ==
  /\ InterviewReady
  /\ call.interviews = 2
  /\ call.awaiting = Some("labels")
  /\ call.message = "skip"
  /\ call.carried = {"ui", "real-time"}
  /\ call.response.extracted_data.description = None
  /\ call.response.extracted_data.labels = {"ui", "real-time"}

(***************************************************************************)
(* The routing of a dispatch.                                              *)
(***************************************************************************)
\* the tracker operation that serves an intent
TRACKER_OPERATION ==
  [create_issue |-> "create_issue", update_issue |-> "update_issue",
   query_issue |-> "get_issue", search_issues |-> "search_issues"]

\* the response's draft names an issue
HasIssueKey(response) ==
  /\ response.extracted_data.issue_key # None
  /\ response.extracted_data.issue_key # Some("")

\* C30: execute_jira_action sends a ready response to the tracker operation
\* its intent names (create, update, query, search), a ready update whose
\* draft has no issue_key to the create operation, and a ready help or
\* unknown response to none; an exception of the tracker call does not leave
\* the command.
C30_DispatchRoutesByIntent ==
  (IsCommand /\ call.response.ready_for_jira) =>
    LET r == call.response
        d == r.extracted_data
    IN  /\ ~call.raised
        /\ IF r.intent \in {"help", "unknown"} THEN call.tracker = <<>>
           ELSE /\ Len(call.tracker) = 1
                /\ call.outcome \in TrackerOutcomes
                /\ call.tracker[1].op =
                     IF r.intent = "update_issue" /\ ~HasIssueKey(r)
                     THEN "create_issue"
                     ELSE TRACKER_OPERATION[r.intent]
                /\ call.tracker[1].op = "create_issue" => call.tracker[1].arg = d
                /\ call.tracker[1].op \in {"update_issue", "get_issue"} =>
                     call.tracker[1].arg = d.issue_key

\* C30 witness: a ready update without an issue_key was sent to the create
\* operation, which raised, and the command returned.
C30_Witness ==
  /\ IsCommand
  /\ call.response.ready_for_jira
  /\ call.response.intent = "update_issue"
  /\ call.response.extracted_data.issue_key = None
  /\ call.outcome = "raise"
  /\ ~call.raised
  /\ call.tracker = <<TrackerCall("create_issue", call.response.extracted_data)>>

====
